---- MODULE Spec2Model ----
(***************************************************************************)
(* Model of google-takeout-metadata-embedder: the sidecar record parser    *)
(* (lib/metadata.py), the file/record matcher (lib/scanner.py), the        *)
(* processing ledger (lib/state.py), the placement planner                 *)
(* (lib/organizer.py) and the parallel run of main.py.                     *)
(*                                                                         *)
(* Conventions.  An optional Python value is a sequence of length 0 or 1:  *)
(* None is << >> and a present value x is << x >>.  A Python str is a      *)
(* sequence of one-character strings.  A datetime is a record of its       *)
(* calendar fields; the local time zone is taken to be UTC.                *)
(***************************************************************************)
EXTENDS Integers, Sequences, FiniteSets, TLC

VARIABLES
    \* ---- extractor harness (lib/metadata.py)
    metadata,          \* the parsed sidecar record handed to the extractor
    extracted,         \* what the extractor returned
    datePc,            \* "input" before the call, "returned" after it
    \* ---- find_matching_json harness (lib/scanner.py)
    media_name,        \* media_file.name
    parentDir,         \* the files of media_file.parent: name -> content
    globOrder,         \* the order in which parent.glob lists the directory
    matched,           \* what find_matching_json returned
    matchPc,           \* "input" before the call, "returned" after it
    \* ---- ProcessingState (lib/state.py) and its backing file
    stateFile,         \* content of <input-root>/.processing_state.json
    processed_files,   \* ProcessingState.processed_files
    newly_processed,   \* ProcessingState.newly_processed
    ledgerPc,          \* "new": no instance yet, "ready", "crashed"
    loadedFrom,        \* the file content the last _load_state read
    loadOutcome,       \* what the last _load_state returned or raised
    base,              \* history: entries loaded at construction, still kept
    marked,            \* history: paths marked since construction or clear
    flushed,           \* history: the last ledger operation was save_state
    \* ---- the normal run of main.py over one input root
    tree,              \* the media files under the root: path -> profile
    outFS,             \* the files under <root>/Output: path -> content
    mainPc,            \* main thread: "idle" (no process), "pool",
                       \* "interrupted", "finished", "handler"
    runNo,             \* number of runs started so far
    tasks,             \* the task list handed to the executor
    taskPc,            \* per task: "pending", "probed", "finished",
                       \* "returned", "collected"
    taskPlan,          \* per task: branch, date and output_path it computed
    taskOk,            \* per task: the success flag of its result
    successful,        \* main(): successful
    failed,            \* main(): failed
    lastExit,          \* history: how the previous run ended
    embeds,            \* history: embed_metadata calls of the current run
    layoutAtStart,     \* history: the paths under Output when the run began
    scheduled,         \* history: the media files the run put in its tasks
    faults,            \* number of copy, mkdir and exiftool failures so far
    everOk,            \* history: the media files whose task returned success
    taskMsg,           \* per task: the message of its result, "" before it
    \* ---- one call of a function of lib/ on given arguments
    callArgs,          \* the arguments of the call
    callResult,        \* what the call returned
    callPc,            \* "input" before the call, "returned" after it
    \* ---- the worker threads of main()'s ThreadPoolExecutor
    lock,              \* threading.Lock(): None, or Some(thread holding it)
    workerPc,          \* per worker: its position in process_with_state
    workerTask,        \* per worker: the task it runs, 0 when it has none
    queue,             \* tasks the executor's work queue has handed out
    dumping,           \* the list save_state is writing, None outside a write
    pendingOk,         \* futures done with success, not yet yielded to main
    pendingFail,       \* futures done with failure, not yet yielded to main
    poolMain           \* main thread: "collecting", "countOk", "countFail",
                       \* "joined", "saved"

dateVars == <<metadata, extracted, datePc>>

matchVars == <<media_name, parentDir, globOrder, matched, matchPc>>

ledgerVars == <<stateFile, processed_files, newly_processed, ledgerPc,
                loadedFrom, loadOutcome, base, marked, flushed>>

runVars == <<tree, outFS, mainPc, runNo, tasks, taskPc, taskPlan, taskOk,
             successful, failed, lastExit, embeds, layoutAtStart, scheduled, faults,
             everOk, taskMsg>>

callVars == <<callArgs, callResult, callPc>>

poolVars == <<lock, workerPc, workerTask, queue, dumping, pendingOk,
              pendingFail, poolMain>>

vars == <<metadata, extracted, datePc,
          media_name, parentDir, globOrder, matched, matchPc,
          stateFile, processed_files, newly_processed, ledgerPc,
          loadedFrom, loadOutcome, base, marked, flushed,
          tree, outFS, mainPc, runNo, tasks, taskPc, taskPlan, taskOk,
          successful, failed, lastExit, embeds, layoutAtStart, scheduled, faults,
          everOk, taskMsg, callArgs, callResult, callPc,
          lock, workerPc, workerTask, queue, dumping, pendingOk,
          pendingFail, poolMain>>

----------------------------------------------------------------------------
(* Optional values *)

None == << >>

Some(x) == << x >>

----------------------------------------------------------------------------
(* Python strings as character sequences *)

DigitChars == <<"0", "1", "2", "3", "4", "5", "6", "7", "8", "9">>

IsDigit(c) == \E i \in 1..10 : DigitChars[i] = c

DigitValue(c) == (CHOOSE i \in 1..10 : DigitChars[i] = c) - 1

\* str.strip() restricted to the blank character used in the model
RECURSIVE LStrip(_)
LStrip(s) == IF s # << >> /\ Head(s) = " " THEN LStrip(Tail(s)) ELSE s

RECURSIVE RStrip(_)
RStrip(s) ==
    IF s # << >> /\ s[Len(s)] = " " THEN RStrip(SubSeq(s, 1, Len(s) - 1)) ELSE s

Strip(s) == RStrip(LStrip(s))

AllDigits(s) == s # << >> /\ \A i \in 1..Len(s) : IsDigit(s[i])

RECURSIVE DigitsToNat(_)
DigitsToNat(s) ==
    IF s = << >> THEN 0
    ELSE 10 * DigitsToNat(SubSeq(s, 1, Len(s) - 1)) + DigitValue(s[Len(s)])

\* str(n) for a natural number n
RECURSIVE NatToDigits(_)
NatToDigits(n) ==
    IF n < 10 THEN << DigitChars[n + 1] >>
    ELSE NatToDigits(n \div 10) \o << DigitChars[(n % 10) + 1] >>

\* does int(s) accept the text s: blanks around an optionally signed digit run
IntTextOk(s) ==
    LET t == Strip(s) IN
    /\ t # << >>
    /\ IF Head(t) \in {"-", "+"} THEN AllDigits(Tail(t)) ELSE AllDigits(t)

IntTextValue(s) ==
    LET t == Strip(s) IN
    IF Head(t) = "-" THEN 0 - DigitsToNat(Tail(t))
    ELSE IF Head(t) = "+" THEN DigitsToNat(Tail(t))
    ELSE DigitsToNat(t)

----------------------------------------------------------------------------
(* datetime: calendar conversion of epoch seconds, both directions *)

SecondsPerDay == 86400

\* datetime.fromtimestamp(n): proleptic Gregorian date of day number
\* n \div 86400 counted from 1970-01-01, and the time of day
FromTimestamp(n) ==
    LET days == n \div SecondsPerDay
        sod  == n % SecondsPerDay
        z    == days + 719468
        era  == z \div 146097
        doe  == z - era * 146097
        yoe  == (doe - doe \div 1460 + doe \div 36524 - doe \div 146096) \div 365
        doy  == doe - (365 * yoe + yoe \div 4 - yoe \div 100)
        mp   == (5 * doy + 2) \div 153
        d    == doy - (153 * mp + 2) \div 5 + 1
        m    == IF mp < 10 THEN mp + 3 ELSE mp - 9
        y    == yoe + era * 400 + (IF m <= 2 THEN 1 ELSE 0)
    IN  [year |-> y, month |-> m, day |-> d,
         hour |-> sod \div 3600, minute |-> (sod % 3600) \div 60,
         second |-> sod % 60]

\* datetime.timestamp(): epoch seconds of a calendar datetime
Timestamp(dt) ==
    LET y   == IF dt.month <= 2 THEN dt.year - 1 ELSE dt.year
        era == y \div 400
        yoe == y - era * 400
        mp  == IF dt.month > 2 THEN dt.month - 3 ELSE dt.month + 9
        doy == (153 * mp + 2) \div 5 + dt.day - 1
        doe == yoe * 365 + yoe \div 4 - yoe \div 100 + doy
        days == era * 146097 + doe - 719468
    IN  days * SecondsPerDay + dt.hour * 3600 + dt.minute * 60 + dt.second

----------------------------------------------------------------------------
(* Sidecar record values (what json.load can hand to the extractors) *)

MaxSmallTs == 2

MaxTsLen == 2

RefEpoch == 1609459200

TsAlphabet == {"0", "1", "-", " ", "x"}

\* a JSON value under the key 'timestamp'
NoneV == [t |-> "none"]

IntV(n) == [t |-> "int", iv |-> n]

\* an integer outside the range datetime.fromtimestamp can convert
BigIntV == [t |-> "bigint"]

StrV(s) == [t |-> "str", sv |-> s]

\* a JSON array or object, empty or not
ObjV(e) == [t |-> "obj", empty |-> e]

SeqsUpTo(S, n) == UNION {[1..k -> S] : k \in 0..n}

TsInts == (0 - MaxSmallTs)..MaxSmallTs \cup {RefEpoch + k : k \in 0..MaxSmallTs}

TsStrs == SeqsUpTo(TsAlphabet, MaxTsLen) \cup {NatToDigits(RefEpoch)}

TsValues ==
    {NoneV, BigIntV} \cup {IntV(n) : n \in TsInts} \cup {StrV(s) : s \in TsStrs}
        \cup {ObjV(e) : e \in BOOLEAN}

\* the value under 'photoTakenTime' / 'creationTime': key missing, a JSON
\* object (its 'timestamp' is NoneV when that key is missing or null), or
\* a JSON value that is not an object
MissingField == [shape |-> "missing"]

OtherField == [shape |-> "other"]

DictField(v) == [shape |-> "dict", timestamp |-> v]

TimeFields == {MissingField, OtherField} \cup {DictField(v) : v \in TsValues}

\* the parsed record: a JSON object with its two time fields, or any other
\* JSON value
OtherJson == [shape |-> "other"]

DictJson(p, c) == [shape |-> "dict", photoTakenTime |-> p, creationTime |-> c]

MetadataRecords ==
    {OtherJson} \cup {DictJson(p, c) : p \in TimeFields, c \in TimeFields}

----------------------------------------------------------------------------
(* Outcome of a call: a returned value, or an exception that escapes *)

Return(v) == [raised |-> "", value |-> v]

Raise(e) == [raised |-> e, value |-> None]

\* the variables of a harness that a specification does not use stay at
\* these values
DateIdle ==
    /\ metadata = OtherJson
    /\ extracted = Return(None)
    /\ datePc = "idle"

CallIdle ==
    /\ callArgs = << >>
    /\ callResult = Return(None)
    /\ callPc = "idle"

PoolIdle ==
    /\ lock = None
    /\ workerPc = << >>
    /\ workerTask = << >>
    /\ queue = 0
    /\ dumping = None
    /\ pendingOk = 0
    /\ pendingFail = 0
    /\ poolMain = "off"

MatchIdle ==
    /\ media_name = << >>
    /\ parentDir = << >>
    /\ globOrder = << >>
    /\ matched = Return(None)
    /\ matchPc = "idle"

AbsentFile == [kind |-> "absent"]

LedgerIdle ==
    /\ stateFile = AbsentFile
    /\ processed_files = {}
    /\ newly_processed = 0
    /\ ledgerPc = "idle"
    /\ loadedFrom = AbsentFile
    /\ loadOutcome = Return({})
    /\ base = {}
    /\ marked = {}
    /\ flushed = FALSE

RunIdle ==
    /\ tree = << >>
    /\ outFS = << >>
    /\ mainPc = "off"
    /\ runNo = 0
    /\ tasks = << >>
    /\ taskPc = << >>
    /\ taskPlan = << >>
    /\ taskOk = << >>
    /\ successful = 0
    /\ failed = 0
    /\ lastExit = "none"
    /\ embeds = 0
    /\ layoutAtStart = {}
    /\ scheduled = {}
    /\ faults = 0
    /\ everOk = {}
    /\ taskMsg = << >>

\* Python truthiness of a timestamp value (`if timestamp:`)
Truthy(v) ==
    CASE v.t = "none"   -> FALSE
      [] v.t = "int"    -> v.iv # 0
      [] v.t = "bigint" -> TRUE
      [] v.t = "str"    -> v.sv # << >>
      [] v.t = "obj"    -> ~v.empty

\* does datetime.fromtimestamp(int(v)) raise ValueError, TypeError or
\* OverflowError
ConvertRaises(v) ==
    CASE v.t = "int"    -> FALSE
      [] v.t = "bigint" -> TRUE
      [] v.t = "str"    -> ~IntTextOk(v.sv)
      [] OTHER          -> TRUE

\* int(v) where it is defined
PyInt(v) == IF v.t = "int" THEN v.iv ELSE IntTextValue(v.sv)

\* dict.get(key, {}).get('timestamp') of one time field
GetTimestamp(f) == IF f.shape = "dict" THEN f.timestamp ELSE NoneV

\* lib/metadata.py extract_datetime
extract_datetime(md) ==
    IF md.shape # "dict" \/ md.photoTakenTime.shape = "other"
    THEN Raise("AttributeError")
    ELSE LET primary == GetTimestamp(md.photoTakenTime) IN
         IF Truthy(primary)
         THEN IF ConvertRaises(primary) THEN Return(None)
              ELSE Return(Some(FromTimestamp(PyInt(primary))))
         ELSE IF md.creationTime.shape = "other"
         THEN Raise("AttributeError")
         ELSE LET fallback == GetTimestamp(md.creationTime) IN
              IF Truthy(fallback)
              THEN IF ConvertRaises(fallback) THEN Return(None)
                   ELSE Return(Some(FromTimestamp(PyInt(fallback))))
              ELSE Return(None)

----------------------------------------------------------------------------
(* Specification of the record-date extractor *)

DateInit ==
    /\ metadata \in MetadataRecords
    /\ extracted = Return(None)
    /\ datePc = "input"
    /\ MatchIdle
    /\ CallIdle
    /\ LedgerIdle
    /\ RunIdle
    /\ PoolIdle

ExtractDatetime ==
    /\ datePc = "input"
    /\ extracted' = extract_datetime(metadata)
    /\ datePc' = "returned"
    /\ UNCHANGED <<metadata>>
    /\ UNCHANGED <<matchVars, ledgerVars, runVars, callVars, poolVars>>

DateNext == ExtractDatetime

SpecDate == DateInit /\ [][DateNext]_vars

----------------------------------------------------------------------------
(* Claims about extract_datetime *)

\* a time field that carries integer epoch seconds, as a number or as a
\* numeric string
HasEpoch(f) ==
    /\ f.shape = "dict"
    /\ \/ f.timestamp.t = "int"
       \/ f.timestamp.t = "str" /\ IntTextOk(f.timestamp.sv)

EpochOf(f) == PyInt(f.timestamp)

FieldAbsent(f) == f.shape = "missing" \/ (f.shape = "dict" /\ f.timestamp.t = "none")

ReturnedEpoch(n) ==
    /\ extracted.raised = ""
    /\ extracted.value # None
    /\ Timestamp(extracted.value[1]) = n

\* C10: for every valid record with a primary timestamp T (an integer, as a
\* number or a numeric string) extract_datetime returns T; with the primary
\* absent and a fallback F present it returns F; with both absent it
\* returns None.
C10_ExtractDatetimeReturnsTimestamp ==
    (datePc = "returned" /\ metadata.shape = "dict") =>
        /\ HasEpoch(metadata.photoTakenTime) =>
               ReturnedEpoch(EpochOf(metadata.photoTakenTime))
        /\ (FieldAbsent(metadata.photoTakenTime) /\ HasEpoch(metadata.creationTime)) =>
               ReturnedEpoch(EpochOf(metadata.creationTime))
        /\ (FieldAbsent(metadata.photoTakenTime) /\ FieldAbsent(metadata.creationTime)) =>
               extracted = Return(None)

\* a time field whose timestamp is there and is not integer epoch seconds
\* in the range of datetime: text that is not a number, an array or object,
\* or an integer out of range
MalformedTimestamp(f) ==
    /\ f.shape = "dict"
    /\ \/ f.timestamp.t = "str" /\ ~IntTextOk(f.timestamp.sv)
       \/ f.timestamp.t \in {"obj", "bigint"}

\* C19: a record whose primary timestamp is non-numeric or out of range is
\* read as if the primary were absent: extract_datetime returns the
\* fallback timestamp F when F is valid, and returns None only when the
\* fallback is absent or invalid too.
C19_MalformedPrimaryFallsBack ==
    (datePc = "returned" /\ metadata.shape = "dict"
        /\ MalformedTimestamp(metadata.photoTakenTime)) =>
        /\ HasEpoch(metadata.creationTime) =>
               ReturnedEpoch(EpochOf(metadata.creationTime))
        /\ extracted = Return(None) => ~HasEpoch(metadata.creationTime)

\* the same for a fallback other than epoch 0, which `if timestamp:` skips
C19_NonZeroFallback ==
    (datePc = "returned" /\ metadata.shape = "dict"
        /\ MalformedTimestamp(metadata.photoTakenTime)
        /\ HasEpoch(metadata.creationTime)
        /\ EpochOf(metadata.creationTime) # 0) =>
        ReturnedEpoch(EpochOf(metadata.creationTime))

\* what the code does have: a malformed primary that is falsy (empty text,
\* empty array or object) lets the fallback through
C19_FalsyPrimaryFallsBack ==
    (datePc = "returned" /\ metadata.shape = "dict"
        /\ MalformedTimestamp(metadata.photoTakenTime)
        /\ ~Truthy(metadata.photoTakenTime.timestamp)
        /\ HasEpoch(metadata.creationTime)
        /\ EpochOf(metadata.creationTime) # 0) =>
        ReturnedEpoch(EpochOf(metadata.creationTime))

----------------------------------------------------------------------------
(* Geo extractor: lib/metadata.py extract_gps.  A float is written as the  *)
(* integer it equals; the coordinates of the model are whole numbers.      *)

MaxCoord == 1

MaxGeoLen == 1

\* the key is not in the object, so dict.get returns its default
AbsentKey == [t |-> "absent"]

\* a JSON integer too large for a float (2^1024 and beyond)
HugeIntV == [t |-> "hugeint"]

GeoValues ==
    {AbsentKey, NoneV, HugeIntV} \cup {IntV(n) : n \in (0 - MaxCoord)..MaxCoord}
        \cup {StrV(s) : s \in SeqsUpTo(TsAlphabet, MaxGeoLen)}
        \cup {ObjV(e) : e \in BOOLEAN}

GeoDict(lat, lon, alt) ==
    [shape |-> "dict", latitude |-> lat, longitude |-> lon, altitude |-> alt]

GeoFields ==
    {MissingField, OtherField}
        \cup {GeoDict(a, b, c) : a \in GeoValues, b \in GeoValues, c \in GeoValues}

\* a record with its 'geoData'
GeoJson(g) == [shape |-> "dict", geoData |-> g]

GeoRecords == {OtherJson} \cup {GeoJson(g) : g \in GeoFields}

\* float(geo_data.get(key, 0)); over TsAlphabet a string is a float literal
\* exactly when it is an integer literal
PyFloat(v) ==
    CASE v.t = "absent"  -> Return(0)
      [] v.t = "int"     -> Return(v.iv)
      [] v.t = "hugeint" -> Raise("OverflowError")
      [] v.t = "str"     -> IF IntTextOk(v.sv) THEN Return(IntTextValue(v.sv))
                            ELSE Raise("ValueError")
      [] OTHER           -> Raise("TypeError")

\* the first of the three conversions that raises, "" when none does
GeoRaised(g) ==
    IF PyFloat(g.latitude).raised # "" THEN PyFloat(g.latitude).raised
    ELSE IF PyFloat(g.longitude).raised # "" THEN PyFloat(g.longitude).raised
    ELSE PyFloat(g.altitude).raised

\* lib/metadata.py extract_gps
extract_gps(md) ==
    IF md.shape # "dict" \/ md.geoData.shape = "other"
    THEN Raise("AttributeError")
    ELSE IF md.geoData.shape = "missing" THEN Return(None)
    ELSE LET g   == md.geoData
             lat == PyFloat(g.latitude).value
             lon == PyFloat(g.longitude).value
             alt == PyFloat(g.altitude).value
         IN  IF GeoRaised(g) \in {"ValueError", "TypeError"} THEN Return(None)
             ELSE IF GeoRaised(g) # "" THEN Raise(GeoRaised(g))
             ELSE IF lat # 0 \/ lon # 0 THEN Return(Some(<<lat, lon, alt>>))
             ELSE Return(None)

GeoInit ==
    /\ metadata \in GeoRecords
    /\ extracted = Return(None)
    /\ datePc = "input"
    /\ MatchIdle
    /\ CallIdle
    /\ LedgerIdle
    /\ RunIdle
    /\ PoolIdle

ExtractGps ==
    /\ datePc = "input"
    /\ extracted' = extract_gps(metadata)
    /\ datePc' = "returned"
    /\ UNCHANGED <<metadata>>
    /\ UNCHANGED <<matchVars, ledgerVars, runVars, callVars, poolVars>>

GeoNext == ExtractGps

SpecGeo == GeoInit /\ [][GeoNext]_vars

----------------------------------------------------------------------------
(* Claims about extract_gps *)

\* a geo object whose latitude and longitude are numbers
IsGeoObject(md) ==
    /\ md.shape = "dict"
    /\ md.geoData.shape = "dict"
    /\ md.geoData.latitude.t = "int"
    /\ md.geoData.longitude.t = "int"

\* a JSON number, or no altitude at all
NumericAltitude(v) == v.t \in {"int", "hugeint", "absent"}

\* C11: for a geo object with latitude 0 and longitude 0 extract_gps returns
\* None whatever the altitude is; with a non-zero latitude or longitude (and
\* an altitude that is a number or missing) it returns the three values.
C11_ExtractGps ==
    (datePc = "returned" /\ IsGeoObject(metadata)) =>
        LET g == metadata.geoData IN
        /\ (g.latitude.iv = 0 /\ g.longitude.iv = 0) => extracted = Return(None)
        /\ ((g.latitude.iv # 0 \/ g.longitude.iv # 0) /\ NumericAltitude(g.altitude)) =>
               /\ extracted.raised = ""
               /\ extracted.value # None
               /\ extracted.value[1][1] = g.latitude.iv
               /\ extracted.value[1][2] = g.longitude.iv
               /\ g.altitude.t = "int" => extracted.value[1][3] = g.altitude.iv
               /\ g.altitude.t = "absent" => extracted.value[1][3] = 0

\* the same for altitudes a float can hold
C11_ExtractGpsFiniteAltitude ==
    (datePc = "returned" /\ IsGeoObject(metadata)
         /\ metadata.geoData.altitude.t # "hugeint") => C11_ExtractGps

----------------------------------------------------------------------------
(* File/record matcher: lib/scanner.py find_matching_json *)

MaxDirFiles == 3

NumberedLimit == 99

StartsWith(s, prefix) ==
    Len(s) >= Len(prefix) /\ SubSeq(s, 1, Len(prefix)) = prefix

EndsWith(s, suffix) ==
    Len(s) >= Len(suffix) /\ SubSeq(s, Len(s) - Len(suffix) + 1, Len(s)) = suffix

DotJson == <<".", "j", "s", "o", "n">>

\* f"{media_name}.json"
ExactJsonName(m) == m \o DotJson

\* f"{media_name}({i}).json"
NumberedJsonName(m, i) == m \o <<"(">> \o NatToDigits(i) \o <<")">> \o DotJson

\* fnmatch of a name against f"{media_name}*.json"
GlobMatches(name, m) ==
    /\ StartsWith(name, m)
    /\ EndsWith(name, DotJson)
    /\ Len(name) >= Len(m) + Len(DotJson)

\* what open + json.load + metadata.get('title', '') make of a file:
\* a decoding or parsing error, a JSON object with its title, or a JSON
\* value that is not an object
InvalidJsonFile == [kind |-> "invalid"]

OtherJsonFile == [kind |-> "other"]

DictJsonFile(title) == [kind |-> "dict", title |-> title]

MediaNames == {<<"a", ".", "j", "p", "g">>, <<".", "_", "a", ".", "j", "p", "g">>}

\* the names a directory of the model may hold next to media file m
JsonNamePool(m) ==
    { ExactJsonName(m),
      NumberedJsonName(m, 1), NumberedJsonName(m, 2),
      NumberedJsonName(m, NumberedLimit), NumberedJsonName(m, NumberedLimit + 1),
      m \o <<"-", "e">> \o DotJson,
      m \o <<"(", "x", ")">> \o DotJson,
      <<"z">> \o DotJson }

JsonContents(m) ==
    {InvalidJsonFile, OtherJsonFile, DictJsonFile(m), DictJsonFile(<< >>),
     DictJsonFile(<<"z">>)}

Directories(m) ==
    UNION { [names -> JsonContents(m)] :
              names \in {n \in SUBSET JsonNamePool(m) : Cardinality(n) <= MaxDirFiles} }

\* all orders in which a set of names can be listed
Orders(S) ==
    {o \in [1..Cardinality(S) -> S] : \A i, j \in 1..Cardinality(S) : o[i] = o[j] => i = j}

\* list(parent.glob(pattern)): the listed names that match, in listing order
RECURSIVE GlobList(_, _)
GlobList(order, m) ==
    IF order = << >> THEN << >>
    ELSE IF GlobMatches(Head(order), m)
         THEN <<Head(order)>> \o GlobList(Tail(order), m)
         ELSE GlobList(Tail(order), m)

\* the loop over matching_jsons (lines 55-71)
RECURSIVE TitleScan(_, _, _)
TitleScan(cands, dir, m) ==
    IF cands = << >> THEN Return(None)
    ELSE LET json_path == Head(cands) IN
         IF StartsWith(json_path, <<".", "_">>) THEN TitleScan(Tail(cands), dir, m)
         ELSE IF dir[json_path].kind = "invalid" THEN TitleScan(Tail(cands), dir, m)
         ELSE IF dir[json_path].kind = "other" THEN Raise("AttributeError")
         ELSE IF dir[json_path].title = m THEN Return(Some(json_path))
         ELSE TitleScan(Tail(cands), dir, m)

find_matching_json(m, dir, order) ==
    IF ExactJsonName(m) \in DOMAIN dir
    THEN Return(Some(ExactJsonName(m)))
    ELSE IF \E i \in 1..NumberedLimit : NumberedJsonName(m, i) \in DOMAIN dir
    THEN Return(Some(NumberedJsonName(m,
             CHOOSE i \in 1..NumberedLimit :
                 /\ NumberedJsonName(m, i) \in DOMAIN dir
                 /\ \A j \in 1..(i - 1) : NumberedJsonName(m, j) \notin DOMAIN dir)))
    ELSE TitleScan(GlobList(order, m), dir, m)

MatchInit ==
    /\ media_name \in MediaNames
    /\ parentDir \in Directories(media_name)
    /\ globOrder \in Orders(DOMAIN parentDir)
    /\ matched = Return(None)
    /\ matchPc = "input"
    /\ DateIdle
    /\ CallIdle
    /\ LedgerIdle
    /\ RunIdle
    /\ PoolIdle

FindMatchingJson ==
    /\ matchPc = "input"
    /\ matched' = find_matching_json(media_name, parentDir, globOrder)
    /\ matchPc' = "returned"
    /\ UNCHANGED <<media_name, parentDir, globOrder>>
    /\ UNCHANGED <<dateVars, ledgerVars, runVars, callVars, poolVars>>

MatchNext == FindMatchingJson

SpecMatch == MatchInit /\ [][MatchNext]_vars

----------------------------------------------------------------------------
(* Claims about find_matching_json *)

\* a record that qualifies for the title match of C9
TitleCandidate(name) ==
    /\ name \in DOMAIN parentDir
    /\ StartsWith(name, media_name)
    /\ EndsWith(name, DotJson)
    /\ ~StartsWith(name, <<".", "_">>)
    /\ parentDir[name].kind = "dict"
    /\ parentDir[name].title = media_name

PositionIn(order, name) == CHOOSE i \in 1..Len(order) : order[i] = name

\* C9: <media>.json wins when present; else the <media>(N).json with the
\* smallest N in 1..99; else the first listed record that starts with
\* <media>, does not start with ._, is valid and has title = <media>; else
\* None.
C9_MatchingPriority ==
    matchPc = "returned" =>
        LET exact == ExactJsonName(media_name)
            nums  == {i \in 1..NumberedLimit :
                         NumberedJsonName(media_name, i) \in DOMAIN parentDir}
            cands == {n \in DOMAIN parentDir : TitleCandidate(n)}
        IN  IF exact \in DOMAIN parentDir
            THEN matched = Return(Some(exact))
            ELSE IF nums # {}
            THEN \E i \in nums :
                     /\ \A j \in nums : i <= j
                     /\ matched = Return(Some(NumberedJsonName(media_name, i)))
            ELSE IF cands # {}
            THEN \E n \in cands :
                     /\ \A o \in cands :
                            PositionIn(globOrder, n) <= PositionIn(globOrder, o)
                     /\ matched = Return(Some(n))
            ELSE matched = Return(None)

----------------------------------------------------------------------------
(* Processing ledger: lib/state.py ProcessingState *)

NumLedgerPaths == 2

MaxMarks == 11

FlushEvery == 10

NameA == <<"a", ".", "j", "p", "g">>

NameB == <<"b", ".", "j", "p", "g">>

\* absolute, symlink-free media paths: directory and file name
AllPaths == << <<"d1", NameA>>, <<"d2", NameA>>, <<"d3", NameB>>, <<"d4", NameB>> >>

LedgerPaths == {AllPaths[i] : i \in 1..NumLedgerPaths}

\* file_path.resolve(): the paths of the model are already resolved
Resolve(p) == p

\* a digest that looks at the file name only
compute_file_hash_NameOnly(p) == <<"md5", <<"d", p[2]>>>>

\* hashlib.md5(str(file_path.resolve())).hexdigest(): an opaque digest,
\* distinct for distinct resolved paths
compute_file_hash(p) == <<"md5", Resolve(p)>>

\* a digest left in the file by a run over another tree
ForeignHash == <<"md5", <<"d0", NameA>>>>

LedgerHashes == {compute_file_hash(p) : p \in LedgerPaths} \cup {ForeignHash}

\* content of the backing file: absent, a JSON list of strings, or corrupt
ListFile(items) == [kind |-> "list", items |-> items]

\* not valid JSON
BadJsonFile == [kind |-> "badjson"]

\* bytes that are not valid text in the default encoding
BadTextFile == [kind |-> "badtext"]

\* a JSON number, true, false or null
ScalarFile == [kind |-> "scalar"]

\* a JSON list holding lists or objects
NestedListFile == [kind |-> "nestedlist"]

\* a non-empty JSON object or a non-empty JSON string
KeyedFile == [kind |-> "keyed"]

CorruptFiles == {BadJsonFile, BadTextFile, ScalarFile, NestedListFile, KeyedFile}

\* the set a JSON object or string turns into under set(data)
KeyedEntries == {<<"key", <<"k">>>>}

Range(q) == {q[i] : i \in DOMAIN q}

\* _load_state (lines 29-45)
load_state(file) ==
    CASE file.kind = "absent"     -> Return({})
      [] file.kind = "list"       -> Return(Range(file.items))
      [] file.kind = "badjson"    -> Return({})
      [] file.kind = "badtext"    -> Raise("UnicodeDecodeError")
      [] file.kind = "scalar"     -> Raise("TypeError")
      [] file.kind = "nestedlist" -> Raise("TypeError")
      [] file.kind = "keyed"      -> Return(KeyedEntries)

is_processed(pf, p) == compute_file_hash(p) \in pf

\* json.dump(list(self.processed_files)): the set in some order
JsonDumps(pf) == {ListFile(o) : o \in Orders(pf)}

\* ProcessingState(state_file): __init__ (lines 19-27)
LedgerConstruct ==
    /\ loadedFrom' = stateFile
    /\ loadOutcome' = load_state(stateFile)
    /\ IF load_state(stateFile).raised = ""
       THEN /\ processed_files' = load_state(stateFile).value
            /\ base' = load_state(stateFile).value
            /\ ledgerPc' = "ready"
       ELSE /\ processed_files' = {}
            /\ base' = {}
            /\ ledgerPc' = "crashed"
    /\ newly_processed' = 0
    /\ marked' = {}
    /\ flushed' = FALSE
    /\ UNCHANGED stateFile

\* save_state (lines 87-97), with the content json.dump writes
LedgerSaveAs(written) ==
    /\ stateFile' = written
    /\ flushed' = TRUE

LedgerSave == \E written \in JsonDumps(processed_files) : LedgerSaveAs(written)

FlushDue_Never(n) == FALSE

\* `if self.newly_processed % 10 == 0:` (line 84)
FlushDue(n) == n % FlushEvery = 0

\* mark_processed (lines 73-85), with the content json.dump writes if the
\* addition is one that flushes
LedgerMarkAs(p, written) ==
    /\ processed_files' = processed_files \cup {compute_file_hash(p)}
    /\ newly_processed' = newly_processed + 1
    /\ marked' = marked \cup {p}
    /\ IF FlushDue(newly_processed + 1)
       THEN /\ stateFile' = written
            /\ flushed' = TRUE
       ELSE /\ UNCHANGED stateFile
            /\ flushed' = FALSE

LedgerMark(p) ==
    IF FlushDue(newly_processed + 1)
    THEN \E written \in JsonDumps(processed_files \cup {compute_file_hash(p)}) :
             LedgerMarkAs(p, written)
    ELSE LedgerMarkAs(p, stateFile)

\* clear (lines 99-112)
LedgerClear ==
    /\ processed_files' = {}
    /\ newly_processed' = 0
    /\ stateFile' = AbsentFile
    /\ base' = {}
    /\ marked' = {}
    /\ flushed' = FALSE

LedgerInit ==
    /\ stateFile \in {AbsentFile} \cup CorruptFiles
                       \cup UNION {JsonDumps(hs) : hs \in SUBSET LedgerHashes}
    /\ processed_files = {}
    /\ newly_processed = 0
    /\ ledgerPc = "new"
    /\ loadedFrom = AbsentFile
    /\ loadOutcome = Return({})
    /\ base = {}
    /\ marked = {}
    /\ flushed = FALSE
    /\ DateIdle
    /\ MatchIdle
    /\ CallIdle
    /\ RunIdle
    /\ PoolIdle

Construct ==
    /\ ledgerPc = "new"
    /\ LedgerConstruct
    /\ UNCHANGED <<dateVars, matchVars, runVars, callVars, poolVars>>

MarkProcessed ==
    /\ ledgerPc = "ready"
    /\ newly_processed < MaxMarks
    /\ \E p \in LedgerPaths : LedgerMark(p)
    /\ UNCHANGED <<ledgerPc, loadedFrom, loadOutcome, base>>
    /\ UNCHANGED <<dateVars, matchVars, runVars, callVars, poolVars>>

SaveState ==
    /\ ledgerPc = "ready"
    /\ LedgerSave
    /\ UNCHANGED <<processed_files, newly_processed, ledgerPc, loadedFrom,
                   loadOutcome, base, marked>>
    /\ UNCHANGED <<dateVars, matchVars, runVars, callVars, poolVars>>

Clear ==
    /\ ledgerPc = "ready"
    /\ LedgerClear
    /\ UNCHANGED <<ledgerPc, loadedFrom, loadOutcome>>
    /\ UNCHANGED <<dateVars, matchVars, runVars, callVars, poolVars>>

\* a fresh ProcessingState over the same backing file; the history of the
\* instance it replaces is kept in base, marked and flushed
Reload ==
    /\ ledgerPc = "ready"
    /\ loadedFrom' = stateFile
    /\ loadOutcome' = load_state(stateFile)
    /\ processed_files' = load_state(stateFile).value
    /\ newly_processed' = 0
    /\ ledgerPc' = "reloaded"
    /\ UNCHANGED <<stateFile, base, marked, flushed>>
    /\ UNCHANGED <<dateVars, matchVars, runVars, callVars, poolVars>>

LedgerNext == Construct \/ MarkProcessed \/ SaveState \/ Clear \/ Reload

SpecLedger == LedgerInit /\ [][LedgerNext]_vars

----------------------------------------------------------------------------
(* Claims about the ledger *)

\* C4: marking every path of a set S, flushing, and loading a fresh
\* instance from the same file yields is_processed(p) exactly for the
\* paths of S (next to the entries the first instance had loaded: none for a
\* ledger that started empty).
C4_LedgerRoundTrip ==
    (ledgerPc = "reloaded" /\ flushed) =>
        /\ loadOutcome.raised = ""
        /\ \A p \in LedgerPaths :
               is_processed(processed_files, p)
                   <=> (p \in marked \/ compute_file_hash(p) \in base)
        /\ base = {} =>
               \A p \in LedgerPaths : is_processed(processed_files, p) <=> p \in marked

C4_Witness ==
    /\ ledgerPc = "reloaded"
    /\ flushed
    /\ base = {}
    /\ marked = {AllPaths[1]}
    /\ is_processed(processed_files, AllPaths[1])
    /\ ~is_processed(processed_files, AllPaths[2])

\* C8: constructing the ledger over an absent or corrupt backing file
\* yields an empty set and does not raise.
C8_LoadNeverFails ==
    (ledgerPc # "new" /\ loadedFrom.kind # "list") =>
        /\ loadOutcome.raised = ""
        /\ loadOutcome.value = {}

----------------------------------------------------------------------------
(* Placement planner: lib/organizer.py *)

MONTH_NAMES ==
    << <<"J", "a", "n", "u", "a", "r", "y">>,
       <<"F", "e", "b", "r", "u", "a", "r", "y">>,
       <<"M", "a", "r", "c", "h">>,
       <<"A", "p", "r", "i", "l">>,
       <<"M", "a", "y">>,
       <<"J", "u", "n", "e">>,
       <<"J", "u", "l", "y">>,
       <<"A", "u", "g", "u", "s", "t">>,
       <<"S", "e", "p", "t", "e", "m", "b", "e", "r">>,
       <<"O", "c", "t", "o", "b", "e", "r">>,
       <<"N", "o", "v", "e", "m", "b", "e", "r">>,
       <<"D", "e", "c", "e", "m", "b", "e", "r">> >>

OutputDir == <<"O", "u", "t", "p", "u", "t">>

UnknownDir == <<"U", "n", "k", "n", "o", "w", "n">>

\* position of the last "." of a name, 0 when there is none
LastDot(name) ==
    IF \E i \in 1..Len(name) : name[i] = "."
    THEN CHOOSE i \in 1..Len(name) :
             name[i] = "." /\ \A j \in (i + 1)..Len(name) : name[j] # "."
    ELSE 0

\* pathlib: Path.suffix and Path.stem
Suffix(name) ==
    IF LastDot(name) > 1 /\ LastDot(name) < Len(name)
    THEN SubSeq(name, LastDot(name), Len(name))
    ELSE << >>

Stem(name) == SubSeq(name, 1, Len(name) - Len(Suffix(name)))

OutputFolder_Numeric(dt) ==
    IF dt = None THEN <<OutputDir, UnknownDir>>
    ELSE <<OutputDir, NatToDigits(dt[1].year), NatToDigits(dt[1].month)>>

\* output_base / year / month, or output_base / "Unknown" (lines 18-28)
OutputFolder(dt) ==
    IF dt = None THEN <<OutputDir, UnknownDir>>
    ELSE <<OutputDir, NatToDigits(dt[1].year), MONTH_NAMES[dt[1].month]>>

OutPath(folder, name) == [folder |-> folder, name |-> name]

\* f"{stem}_{counter}{suffix}"
CollisionName(name, counter) ==
    Stem(name) \o <<"_">> \o NatToDigits(counter) \o Suffix(name)

\* get_output_path against the files fs that exist under Output; a media
\* path is <<directory, file name>>
\* the while loop of lines 52-55, entered with the given counter
RECURSIVE CollisionLoop(_, _, _, _)
CollisionLoop(fs, folder, filename, counter) ==
    IF OutPath(folder, CollisionName(filename, counter)) \in DOMAIN fs
    THEN CollisionLoop(fs, folder, filename, counter + 1)
    ELSE OutPath(folder, CollisionName(filename, counter))

get_output_path_NoRecheck(fs, media_file, dt) ==
    IF OutPath(OutputFolder(dt), media_file[2]) \in DOMAIN fs
    THEN OutPath(OutputFolder(dt), CollisionName(media_file[2], 1))
    ELSE OutPath(OutputFolder(dt), media_file[2])

get_output_path(fs, media_file, dt) ==
    LET folder   == OutputFolder(dt)
        filename == media_file[2]
    IN  IF OutPath(folder, filename) \in DOMAIN fs
        THEN CollisionLoop(fs, folder, filename, 1)
        ELSE OutPath(folder, filename)

----------------------------------------------------------------------------
(* Reconciliation check: lib/exif_reader.py has_matching_metadata *)

MatchWindow == 60

Abs(n) == IF n < 0 THEN 0 - n ELSE n

has_matching_metadata_Strict(exif_date, json_datetime) ==
    /\ exif_date # None
    /\ Abs(Timestamp(exif_date[1]) - Timestamp(json_datetime)) < MatchWindow

\* exif_date is what read_exif_date returned for the file
has_matching_metadata(exif_date, json_datetime) ==
    /\ exif_date # None
    /\ Abs(Timestamp(exif_date[1]) - Timestamp(json_datetime)) <= MatchWindow

----------------------------------------------------------------------------
(* The normal run: main.py main, process_with_state, process_file,        *)
(* process_file_without_json                                               *)

NumFiles == 2

MaxFaults == 1

MaxRuns == 3

CpuCount == 4

\* min(8, max(4, multiprocessing.cpu_count() - 1))
max_workers ==
    LET m == IF CpuCount - 1 > 4 THEN CpuCount - 1 ELSE 4
    IN  IF m < 8 THEN m ELSE 8

SourcePaths == {AllPaths[i] : i \in 1..NumFiles}

NoSidecar == [kind |-> "none"]

\* a sidecar parse_json returns None for
UnparseableSidecar == [kind |-> "unparseable"]

RecordSidecar(md) == [kind |-> "record", md |-> md]

\* a record dated RefEpoch by its photoTakenTime
DatedRecord == DictJson(DictField(StrV(NatToDigits(RefEpoch))), MissingField)

\* a record whose photoTakenTime is not an object
MalformedRecord == DictJson(OtherField, MissingField)

\* what the scan, read_exif_date and the date guesser find for one media
\* file: its sidecar, its embedded DateTimeOriginal, its guessed date
Profile(sc, exif, guess) == [sidecar |-> sc, exif |-> exif, guess |-> guess]

Profiles ==
    { Profile(RecordSidecar(DatedRecord), None, None),
      Profile(RecordSidecar(DatedRecord), Some(FromTimestamp(RefEpoch + 30)), None),
      Profile(UnparseableSidecar, None, None),
      Profile(RecordSidecar(MalformedRecord), None, None),
      Profile(NoSidecar, None, None),
      Profile(NoSidecar, Some(FromTimestamp(RefEpoch)), None) }

\* the elements of AllPaths that are in S, in the order of AllPaths: the
\* order in which rglob and the list comprehensions visit the files
RECURSIVE SelectPaths(_, _)
SelectPaths(i, S) ==
    IF i > Len(AllPaths) THEN << >>
    ELSE IF AllPaths[i] \in S THEN <<AllPaths[i]>> \o SelectPaths(i + 1, S)
    ELSE SelectPaths(i + 1, S)

\* scan_folder: the media files that have a sidecar, and those that do not
files_with_json(tr) ==
    SelectPaths(1, {p \in DOMAIN tr : tr[p].sidecar.kind # "none"})

files_without_json(tr) ==
    SelectPaths(1, {p \in DOMAIN tr : tr[p].sidecar.kind = "none"})

NotProcessed_NoFilter(pf, files) == SelectPaths(1, Range(files))

\* the ledger filter of main (lines 585-586)
NotProcessed(pf, files) ==
    SelectPaths(1, {p \in Range(files) : ~is_processed(pf, p)})

\* one entry of the task list (lines 635-646)
Task(m, tr) ==
    [media |-> m, json |-> tr[m].sidecar,
     guessed_date |-> IF tr[m].sidecar.kind = "none" THEN tr[m].guess ELSE None]

BuildTasks_PairedOnly(pf, tr) ==
    LET todo == NotProcessed(pf, files_with_json(tr))
    IN  [i \in 1..Len(todo) |-> Task(todo[i], tr)]

BuildTasks(pf, tr) ==
    LET todo == NotProcessed(pf, files_with_json(tr))
                    \o NotProcessed(pf, files_without_json(tr))
    IN  [i \in 1..Len(todo) |-> Task(todo[i], tr)]

CleanupDue_Always(nfailed, files_remaining) == files_remaining > 0

\* the state clean-up test at the end of main (line 689)
CleanupDue(nfailed, files_remaining) == nfailed = 0 /\ files_remaining > 0

\* process_file / process_file_without_json up to and including
\* get_output_path: an early failure, or the branch taken with its date and
\* output_path
EarlyFailure == [branch |-> "failed", dt |-> None, out |-> OutPath(<< >>, << >>)]

\* the task left process_file by an exception its handler does not catch
Escaped == [branch |-> "raised", dt |-> None, out |-> OutPath(<< >>, << >>)]

IsException_ValueError(e) == e = "ValueError"

\* `except Exception` of process_file and process_file_without_json: the
\* errors the functions they call raise are subclasses of Exception
IsException(e) ==
    e \in {"AttributeError", "TypeError", "ValueError", "OverflowError",
           "UnicodeDecodeError", "OSError"}

\* the message of the result of a task that ends before it copies
EarlyMessage(task) ==
    IF task.json.kind = "unparseable" THEN "Failed to parse JSON"
    ELSE "Unexpected error"

\* the message of the result of a task that went on to copy
CommitMessage(outcome) ==
    CASE outcome = "mkdir_fail" -> "Failed to create output directory"
      [] outcome = "copy_fail"  -> "Failed to copy file"
      [] outcome = "embed_fail" -> "Failed to embed metadata"
      [] OTHER                  -> "summary"

Plan(branch, dt, out) == [branch |-> branch, dt |-> dt, out |-> out]

ProcessProbe(fs, task, tr) ==
    IF task.json.kind = "none"
    THEN LET exif_date   == tr[task.media].exif
             date_to_use == IF exif_date # None THEN exif_date ELSE task.guessed_date
         IN  Plan("nojson", date_to_use, get_output_path(fs, task.media, date_to_use))
    ELSE IF task.json.kind = "unparseable" THEN EarlyFailure
    ELSE IF extract_datetime(task.json.md).raised # ""
    THEN IF IsException(extract_datetime(task.json.md).raised)
         THEN EarlyFailure ELSE Escaped
    ELSE LET dt == extract_datetime(task.json.md).value IN
         IF dt # None /\ has_matching_metadata(tr[task.media].exif, dt[1])
         THEN Plan("copyonly", dt, get_output_path(fs, task.media, dt))
         ELSE Plan("embed", dt, get_output_path(fs, task.media, dt))

\* a file under Output: the DateTimeOriginal it carries
OutFile(exif) == [exif |-> exif]

Outcomes(plan) ==
    IF plan.branch = "embed" THEN {"ok", "mkdir_fail", "copy_fail", "embed_fail"}
    ELSE {"ok", "mkdir_fail", "copy_fail"}

AllTasksIn(S) == \A i \in DOMAIN tasks : taskPc[i] \in S

\* the process is gone, and with it the task list, the results, the
\* counters and the ProcessingState instance
ProcessExit ==
    /\ mainPc' = "idle"
    /\ processed_files' = {}
    /\ newly_processed' = 0
    /\ ledgerPc' = "new"
    /\ loadedFrom' = AbsentFile
    /\ loadOutcome' = Return({})
    /\ base' = {}
    /\ marked' = {}
    /\ flushed' = FALSE
    /\ tasks' = << >>
    /\ taskPc' = << >>
    /\ taskPlan' = << >>
    /\ taskOk' = << >>
    /\ taskMsg' = << >>
    /\ successful' = 0
    /\ failed' = 0
    /\ embeds' = 0
    /\ layoutAtStart' = {}
    /\ scheduled' = {}

\* the state before the first run over one of the given trees
RunInitOver(trees) ==
    /\ tree \in trees
    /\ outFS = << >>
    /\ mainPc = "idle"
    /\ runNo = 0
    /\ tasks = << >>
    /\ taskPc = << >>
    /\ taskPlan = << >>
    /\ taskOk = << >>
    /\ successful = 0
    /\ failed = 0
    /\ lastExit = "none"
    /\ embeds = 0
    /\ layoutAtStart = {}
    /\ scheduled = {}
    /\ faults = 0
    /\ everOk = {}
    /\ taskMsg = << >>
    /\ stateFile = AbsentFile
    /\ processed_files = {}
    /\ newly_processed = 0
    /\ ledgerPc = "new"
    /\ loadedFrom = AbsentFile
    /\ loadOutcome = Return({})
    /\ base = {}
    /\ marked = {}
    /\ flushed = FALSE
    /\ DateIdle
    /\ MatchIdle
    /\ CallIdle
    /\ PoolIdle

RunInit == RunInitOver([SourcePaths -> Profiles])

\* main() from the scan to the submission of the tasks (lines 534-662)
StartRun ==
    /\ mainPc = "idle"
    /\ runNo < MaxRuns
    /\ runNo' = runNo + 1
    /\ LET ok == load_state(stateFile).raised = ""
           ts == IF ok THEN BuildTasks(load_state(stateFile).value, tree) ELSE << >>
       IN  /\ tasks' = ts
           /\ taskPc' = [i \in 1..Len(ts) |-> "pending"]
           /\ taskPlan' = [i \in 1..Len(ts) |-> EarlyFailure]
           /\ taskOk' = [i \in 1..Len(ts) |-> FALSE]
           /\ taskMsg' = [i \in 1..Len(ts) |-> ""]
           /\ scheduled' = {ts[i].media : i \in 1..Len(ts)}
           /\ IF Len(ts) > 0
              THEN LedgerConstruct /\ mainPc' = "pool"
              ELSE /\ mainPc' = "idle"
                   /\ UNCHANGED ledgerVars
           /\ lastExit' = IF ~ok THEN "fatal"
                          ELSE IF Len(ts) = 0 THEN "nothing_to_do"
                          ELSE lastExit
    /\ successful' = 0
    /\ failed' = 0
    /\ embeds' = 0
    /\ layoutAtStart' = DOMAIN outFS
    /\ UNCHANGED <<tree, outFS, faults, everOk>>
    /\ UNCHANGED <<dateVars, matchVars, callVars, poolVars>>

ShouldMark_Always(success) == TRUE

\* `if success:` of process_with_state (line 628)
ShouldMark(success) == success

\* a worker runs process_with_state up to the computed output_path
TaskProbe(i) ==
    /\ mainPc \in {"pool", "interrupted", "failing"}
    /\ taskPc[i] = "pending"
    /\ Cardinality({j \in DOMAIN tasks : taskPc[j] \in {"probed", "finished"}}) < max_workers
    /\ LET plan == ProcessProbe(outFS, tasks[i], tree) IN
           /\ taskPlan' = [taskPlan EXCEPT ![i] = plan]
           /\ taskPc' = [taskPc EXCEPT ![i] =
                             CASE plan.branch = "failed" -> "finished"
                               [] plan.branch = "raised" -> "raised"
                               [] OTHER                  -> "probed"]
           /\ taskMsg' = [taskMsg EXCEPT ![i] =
                              IF plan.branch = "failed" THEN EarlyMessage(tasks[i])
                              ELSE ""]
    /\ UNCHANGED <<tree, outFS, mainPc, runNo, tasks, taskOk, successful, failed,
                   lastExit, embeds, layoutAtStart, scheduled, faults, everOk>>
    /\ UNCHANGED <<dateVars, matchVars, ledgerVars, callVars, poolVars>>

WrittenFile_Source(task, plan) == [under |-> "root", path |-> task.media]

\* the file embed_metadata and os.utime are handed: output_path
\* (main.py lines 181, 199, 205, 278)
WrittenFile(task, plan) == [under |-> "Output", path |-> plan.out]

\* ensure_output_directory, shutil.copy2, embed_metadata and os.utime on the
\* output_path the task computed
TaskCommit(i) ==
    /\ mainPc \in {"pool", "interrupted", "failing"}
    /\ taskPc[i] = "probed"
    /\ \E outcome \in Outcomes(taskPlan[i]) :
           LET plan   == taskPlan[i]
               src    == tree[tasks[i].media].exif
               copied == (plan.out :> OutFile(src)) @@ outFS
               stamped == (plan.out :> OutFile(IF plan.dt # None THEN plan.dt ELSE src))
                              @@ outFS
               written == WrittenFile(tasks[i], plan)
               embedded == plan.branch = "embed" /\ outcome = "ok"
           IN  /\ outcome # "ok" => faults < MaxFaults
               /\ faults' = IF outcome = "ok" THEN faults ELSE faults + 1
               /\ outFS' = CASE outcome \in {"mkdir_fail", "copy_fail"} -> outFS
                             [] outcome = "embed_fail" -> copied
                             [] embedded /\ written.under = "Output" -> stamped
                             [] OTHER -> copied
               /\ tree' = IF embedded /\ written.under = "root" /\ plan.dt # None
                          THEN [tree EXCEPT ![written.path].exif = plan.dt]
                          ELSE tree
               /\ embeds' = IF plan.branch = "embed" /\ outcome \in {"ok", "embed_fail"}
                            THEN embeds + 1 ELSE embeds
               /\ taskOk' = [taskOk EXCEPT ![i] = (outcome = "ok")]
               /\ everOk' = IF outcome = "ok" THEN everOk \cup {tasks[i].media}
                            ELSE everOk
               /\ taskMsg' = [taskMsg EXCEPT ![i] = CommitMessage(outcome)]
    /\ taskPc' = [taskPc EXCEPT ![i] = "finished"]
    /\ UNCHANGED <<mainPc, runNo, tasks, taskPlan, successful, failed,
                   lastExit, layoutAtStart, scheduled>>
    /\ UNCHANGED <<dateVars, matchVars, ledgerVars, callVars, poolVars>>

\* the end of process_with_state: mark_processed under the lock on success
TaskReturn(i) ==
    /\ mainPc \in {"pool", "interrupted", "failing"}
    /\ taskPc[i] = "finished"
    /\ IF ShouldMark(taskOk[i])
       THEN LedgerMark(tasks[i].media)
       ELSE UNCHANGED <<stateFile, processed_files, newly_processed, marked, flushed>>
    /\ taskPc' = [taskPc EXCEPT ![i] = "returned"]
    /\ taskPlan' = [taskPlan EXCEPT ![i] = EarlyFailure]
    /\ UNCHANGED <<ledgerPc, loadedFrom, loadOutcome, base>>
    /\ UNCHANGED <<tree, outFS, mainPc, runNo, tasks, taskOk, successful,
                   failed, lastExit, embeds, layoutAtStart, scheduled, faults, everOk, taskMsg>>
    /\ UNCHANGED <<dateVars, matchVars, callVars, poolVars>>

\* one round of the as_completed loop of main (lines 665-679)
Collect(i) ==
    /\ mainPc = "pool"
    /\ taskPc[i] \in {"returned", "raised"}
    /\ IF taskPc[i] = "returned"
       THEN /\ taskPc' = [taskPc EXCEPT ![i] = "collected"]
            /\ successful' = IF taskOk[i] THEN successful + 1 ELSE successful
            /\ failed' = IF taskOk[i] THEN failed ELSE failed + 1
            /\ UNCHANGED mainPc
       ELSE \* future.result() raises the task's exception in the main thread
            /\ mainPc' = "failing"
            /\ UNCHANGED <<taskPc, successful, failed>>
    /\ UNCHANGED <<tree, outFS, runNo, tasks, taskPlan, taskOk, lastExit,
                   embeds, layoutAtStart, scheduled,
                   faults, everOk, taskMsg>>
    /\ UNCHANGED <<dateVars, matchVars, ledgerVars, callVars, poolVars>>

\* main() after the pool: save_state, summary, clear on full success
\* (lines 681-697)
FinishRun ==
    /\ mainPc = "pool"
    /\ AllTasksIn({"collected"})
    /\ IF CleanupDue(failed, Len(tasks))
       THEN /\ LedgerClear
            /\ lastExit' = "ok"
       ELSE /\ LedgerSave
            /\ lastExit' = "failed"
            /\ UNCHANGED <<processed_files, newly_processed, base, marked>>
    /\ mainPc' = "finished"
    /\ UNCHANGED <<ledgerPc, loadedFrom, loadOutcome>>
    /\ UNCHANGED <<tree, outFS, runNo, tasks, taskPc, taskPlan, taskOk, successful,
                   failed, embeds, layoutAtStart, scheduled, faults, everOk, taskMsg>>
    /\ UNCHANGED <<dateVars, matchVars, callVars, poolVars>>

\* KeyboardInterrupt reaches the main thread inside the as_completed loop
Interrupt ==
    /\ mainPc = "pool"
    /\ mainPc' = "interrupted"
    /\ UNCHANGED <<tree, outFS, runNo, tasks, taskPc, taskPlan, taskOk, successful,
                   failed, lastExit, embeds, layoutAtStart, scheduled, faults, everOk, taskMsg>>
    /\ UNCHANGED <<dateVars, matchVars, ledgerVars, callVars, poolVars>>

\* the executor's __exit__ has waited for the workers and the interrupt or
\* the exception reaches a handler of __main__ (lines 762-769), which prints
\* and exits
ExitInterrupted ==
    /\ mainPc \in {"interrupted", "failing"}
    /\ AllTasksIn({"returned", "collected", "raised"})
    /\ mainPc' = "handler"
    /\ lastExit' = IF mainPc = "failing" THEN "fatal" ELSE "interrupted"
    /\ UNCHANGED <<tree, outFS, runNo, tasks, taskPc, taskPlan, taskOk, successful,
                   failed, embeds, layoutAtStart, scheduled, faults, everOk, taskMsg>>
    /\ UNCHANGED <<dateVars, matchVars, ledgerVars, callVars, poolVars>>

\* a further interrupt ends the wait and the process with tasks in flight
Abort ==
    /\ mainPc = "interrupted"
    /\ ~AllTasksIn({"returned", "collected", "raised"})
    /\ ProcessExit
    /\ lastExit' = "killed"
    /\ UNCHANGED stateFile
    /\ UNCHANGED <<tree, outFS, runNo, faults, everOk>>
    /\ UNCHANGED <<dateVars, matchVars, callVars, poolVars>>

\* the end of main() or sys.exit(1) of the handler
Exit ==
    /\ mainPc \in {"finished", "handler"}
    /\ ProcessExit
    /\ UNCHANGED <<stateFile, lastExit>>
    /\ UNCHANGED <<tree, outFS, runNo, faults, everOk>>
    /\ UNCHANGED <<dateVars, matchVars, callVars, poolVars>>

Next ==
    \/ StartRun
    \/ \E i \in DOMAIN tasks : TaskProbe(i)
    \/ \E i \in DOMAIN tasks : TaskCommit(i)
    \/ \E i \in DOMAIN tasks : TaskReturn(i)
    \/ \E i \in DOMAIN tasks : Collect(i)
    \/ FinishRun
    \/ Interrupt
    \/ ExitInterrupted
    \/ Abort
    \/ Exit

Spec == RunInit /\ [][Next]_vars

----------------------------------------------------------------------------
(* Claims about the normal run *)

\* the hashes a backing file holds for the next ProcessingState
PersistedHashes(file) == IF file.kind = "list" THEN Range(file.items) ELSE {}

HashesOf(paths) == {compute_file_hash(p) : p \in paths}

Running == mainPc \in {"pool", "interrupted", "failing"}

\* C1: a second run over the same input root, after a first run in which
\* every file succeeded, embeds nothing and leaves the layout under Output
\* as the first run left it.
C1_SecondRunIdempotent ==
    (runNo = 2 /\ lastExit = "ok" /\ Running) =>
        /\ embeds = 0
        /\ DOMAIN outFS = layoutAtStart

\* C2: two distinct tasks of the pool whose copies both succeeded wrote to
\* distinct destination paths.
C2_DestinationsUnique ==
    \A i, j \in DOMAIN tasks :
        (i # j /\ taskPc[i] = "finished" /\ taskPc[j] = "finished"
               /\ taskOk[i] /\ taskOk[j])
            => taskPlan[i].out # taskPlan[j].out

\* C3: no file whose path hash is in the loaded ledger is scheduled, and no
\* media file is in two tasks of one run.
C3_AtMostOnce ==
    Running =>
        /\ \A i \in DOMAIN tasks : compute_file_hash(tasks[i].media) \notin base
        /\ \A i, j \in DOMAIN tasks : tasks[i].media = tasks[j].media => i = j

C3_Witness ==
    /\ mainPc = "pool"
    /\ base # {}
    /\ Len(tasks) > 0
    /\ \E p \in DOMAIN tree : p \notin scheduled /\ compute_file_hash(p) \in base

\* C5: when an interrupted run shuts down, every file marked processed
\* before is in the persisted ledger.
C5_InterruptionSavesProgress ==
    mainPc = "handler" => HashesOf(marked) \subseteq PersistedHashes(stateFile)

\* C6: the run that follows an interrupted one schedules exactly the scanned
\* files whose path hash is not in the persisted ledger, each from the start
\* of its processing, and takes nothing back from Output.
C6_ResumeSemantics ==
    [][(mainPc = "idle" /\ lastExit \in {"interrupted", "killed"}
            /\ runNo' = runNo + 1)
        => /\ scheduled' = {p \in DOMAIN tree :
                               compute_file_hash(p) \notin PersistedHashes(stateFile)}
           /\ \A i \in DOMAIN tasks' : taskPc'[i] = "pending"
           /\ Len(tasks') = Cardinality(scheduled')
           /\ outFS' = outFS]_vars

C6_Witness ==
    /\ mainPc = "pool"
    /\ lastExit \in {"interrupted", "killed"}
    /\ base # {}
    /\ scheduled # {}
    /\ scheduled # DOMAIN tree
    /\ \E p \in scheduled : \E o \in DOMAIN outFS : o.name = p[2]

C7_WitnessLoaded ==
    /\ mainPc = "finished"
    /\ failed > 0
    /\ base # {}
    /\ PersistedHashes(stateFile) = base \cup HashesOf(marked)

C7_WitnessCleared ==
    /\ mainPc = "finished"
    /\ failed = 0
    /\ successful > 0
    /\ stateFile = AbsentFile

\* the media files the next run would put in its task list, given the
\* backing file and the tree as they are now
NextSchedule ==
    IF load_state(stateFile).raised # "" THEN {}
    ELSE LET ts == BuildTasks(load_state(stateFile).value, tree)
         IN  {ts[i].media : i \in DOMAIN ts}

TaskFailed(i) == taskPc[i] \in {"returned", "collected"} /\ ~taskOk[i]

\* C15: every entry of the ledger, in memory and in the backing file, is the
\* hash of a media file whose task returned success; a file whose task
\* failed is not marked, and the run that follows schedules it again.
C15_EntriesAreSuccesses ==
    /\ \A h \in processed_files \cup PersistedHashes(stateFile) :
           \E p \in everOk : compute_file_hash(p) = h
    /\ \A i \in DOMAIN tasks :
           TaskFailed(i) =>
               /\ compute_file_hash(tasks[i].media)
                      \notin processed_files \cup PersistedHashes(stateFile)
               /\ mainPc \in {"finished", "handler"} => tasks[i].media \in NextSchedule

C15_Witness ==
    /\ mainPc = "finished"
    /\ PersistedHashes(stateFile) # {}
    /\ \E i \in DOMAIN tasks : TaskFailed(i) /\ tasks[i].media \in NextSchedule
    /\ \E i \in DOMAIN tasks : taskOk[i] /\ tasks[i].media \notin NextSchedule

----------------------------------------------------------------------------
(* Date guessing: lib/scanner.py extract_number_from_filename and          *)
(* guess_date_from_similar_files                                            *)

MaxIndex == 2

GuessWindow == 100

LongRun == 3

\* the length of the run of characters at the start of s that are digits
\* (digits = TRUE) or are not (digits = FALSE)
LeadingRun(s, digits) ==
    CHOOSE k \in 0..Len(s) :
        /\ \A i \in 1..k : IsDigit(s[i]) = digits
        /\ k = Len(s) \/ IsDigit(s[k + 1]) # digits

\* re.findall(r'\d+', s): the maximal runs of digits, left to right
RECURSIVE DigitRuns(_)
DigitRuns(s) ==
    IF s = << >> THEN << >>
    ELSE IF ~IsDigit(Head(s)) THEN DigitRuns(Tail(s))
    ELSE LET k == LeadingRun(s, TRUE)
         IN  <<SubSeq(s, 1, k)>> \o DigitRuns(SubSeq(s, k + 1, Len(s)))

IsLongRun(r) == Len(r) >= LongRun

extract_number_from_filename_LastLong(filename) ==
    LET runs == DigitRuns(filename)
        long == SelectSeq(runs, IsLongRun)
    IN  IF long # << >> THEN Some(DigitsToNat(long[Len(long)]))
        ELSE IF runs # << >> THEN Some(DigitsToNat(runs[Len(runs)]))
        ELSE None

\* extract_number_from_filename (lines 145-170)
extract_number_from_filename(filename) ==
    LET runs == DigitRuns(filename)
        long == SelectSeq(runs, IsLongRun)
    IN  IF long # << >> THEN Some(DigitsToNat(long[1]))
        ELSE IF runs # << >> THEN Some(DigitsToNat(runs[Len(runs)]))
        ELSE None

\* re.search(r'^([^\d]*)', media_file.stem).group(1)
NamePrefix(name) == SubSeq(Stem(name), 1, LeadingRun(Stem(name), FALSE))

IndexEntry(name, dt) == [name |-> name, dt |-> dt]

\* the (distance, dt) pairs of the entries the loop keeps, in index order
RECURSIVE SimilarFiles(_, _, _)
SimilarFiles(index, prefix, target_number) ==
    IF index = << >> THEN << >>
    ELSE LET e    == Head(index)
             rest == SimilarFiles(Tail(index), prefix, target_number)
             num  == extract_number_from_filename(e.name)
         IN  IF ~StartsWith(Stem(e.name), prefix) \/ num = None THEN rest
             ELSE <<[distance |-> Abs(num[1] - target_number), dt |-> e.dt]>> \o rest

\* similar_files.sort(key=distance)[0]: the sort is stable
Closest(similar) ==
    similar[CHOOSE i \in DOMAIN similar :
                /\ \A j \in DOMAIN similar : similar[i].distance <= similar[j].distance
                /\ \A j \in 1..(i - 1) : similar[j].distance > similar[i].distance]

WithinWindow_Always(distance) == TRUE

WithinWindow(distance) == distance <= GuessWindow

\* guess_date_from_similar_files (lines 173-231)
guess_date_from_similar_files(media_name_, files_with_metadata) ==
    IF files_with_metadata = << >> THEN None
    ELSE IF extract_number_from_filename(media_name_) = None THEN None
    ELSE LET similar == SimilarFiles(files_with_metadata, NamePrefix(media_name_),
                                     extract_number_from_filename(media_name_)[1])
         IN  IF similar = << >> THEN None
             ELSE IF WithinWindow(Closest(similar).distance)
             THEN Some(Closest(similar).dt)
             ELSE None

\* file names: a prefix, a run of digits, an extension
GuessPrefixes == {<< >>, <<"I">>}

GuessNumbers ==
    {<< >>, <<"7">>, <<"1", "0", "0">>, <<"1", "0", "2">>, <<"1", "0", "5">>,
     <<"2", "0", "0">>, <<"3", "0", "0">>}

ShortNumbers == {n \in GuessNumbers : ~IsLongRun(n)}

\* the digit of .mp4 counts only in a name without a long run
GuessNames ==
    {p \o n \o <<".", "j", "p", "g">> : p \in GuessPrefixes, n \in GuessNumbers}
        \cup {p \o n \o <<".", "m", "p", "4">> : p \in GuessPrefixes, n \in ShortNumbers}

\* the date of the i-th entry of the index: entries are dated a day apart
IndexDate(i) == FromTimestamp(RefEpoch + (i - 1) * SecondsPerDay)

GuessIndexes ==
    UNION {{[i \in 1..k |-> IndexEntry(names[i], IndexDate(i))] : names \in [1..k -> GuessNames]}
               : k \in 0..MaxIndex}

GuessInit ==
    /\ callArgs \in {[media |-> m, index |-> ix] : m \in GuessNames, ix \in GuessIndexes}
    /\ callResult = Return(None)
    /\ callPc = "input"
    /\ DateIdle
    /\ MatchIdle
    /\ LedgerIdle
    /\ RunIdle
    /\ PoolIdle

GuessDate ==
    /\ callPc = "input"
    /\ callResult' = Return(guess_date_from_similar_files(callArgs.media, callArgs.index))
    /\ callPc' = "returned"
    /\ UNCHANGED callArgs
    /\ UNCHANGED <<dateVars, matchVars, ledgerVars, runVars, poolVars>>

GuessNext == GuessDate

SpecGuess == GuessInit /\ [][GuessNext]_vars

----------------------------------------------------------------------------
(* Claims about date guessing *)

\* the index positions that are candidates for the media file: the stem
\* starts with the prefix of the media file and the name has a number
GuessCandidates(m, ix) ==
    {i \in DOMAIN ix : /\ StartsWith(Stem(ix[i].name), NamePrefix(m))
                       /\ extract_number_from_filename(ix[i].name) # None}

GuessDistance(m, ix, i) ==
    Abs(extract_number_from_filename(ix[i].name)[1] - extract_number_from_filename(m)[1])

NameI(n) == <<"I">> \o n \o <<".", "j", "p", "g">>

ExampleIndex ==
    <<IndexEntry(NameI(<<"1", "0", "0">>), IndexDate(1)),
      IndexEntry(NameI(<<"1", "0", "5">>), IndexDate(2))>>

\* C12: the guess is the date of a candidate at the smallest numeric
\* distance when that distance is at most 100, and None otherwise; with
\* references I100.jpg and I105.jpg the guess for I102.jpg is the date of
\* I100.jpg and the guess for I300.jpg is None.
C12_SimilarityGuess ==
    callPc = "returned" =>
        LET m     == callArgs.media
            ix    == callArgs.index
            cands == IF extract_number_from_filename(m) = None THEN {}
                     ELSE GuessCandidates(m, ix)
            near  == {i \in cands : /\ GuessDistance(m, ix, i) <= 100
                                    /\ \A j \in cands : GuessDistance(m, ix, i)
                                                            <= GuessDistance(m, ix, j)}
        IN  /\ callResult.raised = ""
            /\ near = {} => callResult.value = None
            /\ near # {} => \E i \in near : callResult.value = Some(ix[i].dt)
            /\ (ix = ExampleIndex /\ m = NameI(<<"1", "0", "2">>))
                   => callResult.value = Some(IndexDate(1))
            /\ (ix = ExampleIndex /\ m = NameI(<<"3", "0", "0">>))
                   => callResult.value = None

C12_Witness ==
    /\ callPc = "returned"
    /\ callArgs.index = ExampleIndex
    /\ callArgs.media = NameI(<<"1", "0", "2">>)
    /\ callResult = Return(Some(IndexDate(1)))

C12_WitnessTooFar ==
    /\ callPc = "returned"
    /\ callArgs.index = ExampleIndex
    /\ callArgs.media = NameI(<<"3", "0", "0">>)
    /\ callResult = Return(None)

----------------------------------------------------------------------------
(* Filesystem-time fallback: lib/exif_reader.py read_file_mtime_safe.      *)
(* Times are whole seconds.                                                 *)

MaxSkew == 1

MinYear == 2000

DefaultMinAge == 30

\* datetime < datetime: the calendar fields in order
DatetimeBefore(a, b) ==
    LET fa == <<a.year, a.month, a.day, a.hour, a.minute, a.second>>
        fb == <<b.year, b.month, b.day, b.hour, b.minute, b.second>>
    IN  \E i \in 1..6 : fa[i] < fb[i] /\ \A j \in 1..(i - 1) : fa[j] = fb[j]

\* (later - earlier).days: whole days, rounded down
DaysBetween(later, earlier) == (Timestamp(later) - Timestamp(earlier)) \div SecondsPerDay

OldEnough_Strict(age_days, min_age_days) == age_days > min_age_days

OldEnough(age_days, min_age_days) == ~(age_days < min_age_days)

DatedBy(dt, source) == [date |-> dt, source |-> source]

\* read_file_mtime_safe (lines 79-127); mtime is None when os.path.getmtime
\* raises, now is the value of datetime.now()
read_file_mtime_safe(mtime, now, min_age_days) ==
    IF mtime = None THEN None
    ELSE LET file_date == FromTimestamp(mtime[1])
             now_date  == FromTimestamp(now)
         IN  IF file_date.year < MinYear THEN None
             ELSE IF file_date.year > now_date.year THEN None
             ELSE IF DatetimeBefore(now_date, file_date) THEN None
             ELSE IF ~OldEnough(DaysBetween(now_date, file_date), min_age_days) THEN None
             ELSE Some(DatedBy(file_date, "file_mtime"))

\* 2000-01-01 00:00:00
MinYearEpoch ==
    Timestamp([year |-> MinYear, month |-> 1, day |-> 1,
               hour |-> 0, minute |-> 0, second |-> 0])

\* the instants at which the function is called: at the start of 2021, and
\* early enough in 2000 that the minimum age reaches back into 1999
MtimeNows == {RefEpoch, MinYearEpoch + 10 * SecondsPerDay, MinYearEpoch + 40 * SecondsPerDay}

MtimeAges == {0, 5, DefaultMinAge, DefaultMinAge + 1}

Skews == (0 - MaxSkew)..MaxSkew

MtimesAt(now) ==
    {None} \cup {Some(now - a * SecondsPerDay + k) : a \in MtimeAges, k \in Skews}
           \cup {Some(MinYearEpoch + k) : k \in Skews}
           \cup {Some(now + 366 * SecondsPerDay)}

MinAges == {0, 1, DefaultMinAge}

MtimeInit ==
    /\ callArgs \in {[mtime |-> t, now |-> n, min_age_days |-> a] :
                         n \in MtimeNows, t \in UNION {MtimesAt(x) : x \in MtimeNows},
                         a \in MinAges}
    /\ callResult = Return(None)
    /\ callPc = "input"
    /\ DateIdle
    /\ MatchIdle
    /\ LedgerIdle
    /\ RunIdle
    /\ PoolIdle

ReadFileMtimeSafe ==
    /\ callPc = "input"
    /\ callResult' = Return(read_file_mtime_safe(callArgs.mtime, callArgs.now,
                                                 callArgs.min_age_days))
    /\ callPc' = "returned"
    /\ UNCHANGED callArgs
    /\ UNCHANGED <<dateVars, matchVars, ledgerVars, runVars, poolVars>>

MtimeNext == ReadFileMtimeSafe

SpecMtime == MtimeInit /\ [][MtimeNext]_vars

----------------------------------------------------------------------------
(* Claims about the filesystem-time fallback *)

\* C13: the modification time is accepted exactly when its year is at least
\* 2000, it is not later than the current time and it lies at least
\* min_age_days days back; with min_age_days = 30 a 5-day-old time is
\* rejected and a 31-day-old one (of a year >= 2000) is accepted.
C13_MtimeFallback ==
    callPc = "returned" =>
        LET t   == callArgs.mtime
            now == callArgs.now
            ok  == /\ t # None
                   /\ FromTimestamp(t[1]).year >= 2000
                   /\ t[1] <= now
                   /\ now - t[1] >= callArgs.min_age_days * SecondsPerDay
        IN  /\ callResult.raised = ""
            /\ ok <=> callResult.value # None
            /\ ok => callResult.value = Some(DatedBy(FromTimestamp(t[1]), "file_mtime"))
            /\ (callArgs.min_age_days = 30 /\ t = Some(now - 5 * SecondsPerDay))
                   => callResult.value = None
            /\ (callArgs.min_age_days = 30 /\ t = Some(now - 31 * SecondsPerDay)
                    /\ FromTimestamp(t[1]).year >= 2000)
                   => callResult.value # None

C13_Witness ==
    /\ callPc = "returned"
    /\ callArgs.min_age_days = 30
    /\ callArgs.now = RefEpoch
    /\ callArgs.mtime = Some(RefEpoch - 31 * SecondsPerDay)
    /\ callResult.value = Some(DatedBy(FromTimestamp(RefEpoch - 31 * SecondsPerDay),
                                       "file_mtime"))

C13_WitnessRejected ==
    /\ callPc = "returned"
    /\ callArgs.min_age_days = 30
    /\ callArgs.now = RefEpoch
    /\ callArgs.mtime = Some(RefEpoch - 5 * SecondsPerDay)
    /\ callResult.value = None

----------------------------------------------------------------------------
(* Placement one file after the other: get_output_path followed by the     *)
(* copy to the path it returned                                             *)

MaxPlaced == 3

MaxPresent == 2

PlaceDates == {None, Some(FromTimestamp(RefEpoch))}

\* the names a.jpg, a_1.jpg, ... that may already be in a folder
PresentNames == {NameA} \cup {CollisionName(NameA, k) : k \in 1..MaxPresent}

PresentPaths == {OutPath(OutputFolder(dt), n) : dt \in PlaceDates, n \in PresentNames}

PlaceInit ==
    /\ \E present \in SUBSET PresentPaths :
           callArgs = [fs |-> [o \in present |-> OutFile(None)], placed |-> 0,
                       before |-> {}, media |-> AllPaths[1], dt |-> None]
    /\ callResult = Return(None)
    /\ callPc = "input"
    /\ DateIdle
    /\ MatchIdle
    /\ LedgerIdle
    /\ RunIdle
    /\ PoolIdle

PlaceFile ==
    /\ callArgs.placed < MaxPlaced
    /\ \E m \in Range(AllPaths), dt \in PlaceDates :
           LET out == get_output_path(callArgs.fs, m, dt) IN
           /\ callResult' = Return(out)
           /\ callArgs' = [fs |-> (out :> OutFile(None)) @@ callArgs.fs,
                           placed |-> callArgs.placed + 1,
                           before |-> DOMAIN callArgs.fs, media |-> m, dt |-> dt]
    /\ callPc' = "returned"
    /\ UNCHANGED <<dateVars, matchVars, ledgerVars, runVars, poolVars>>

PlaceNext == PlaceFile

SpecPlace == PlaceInit /\ [][PlaceNext]_vars

----------------------------------------------------------------------------
(* Claims about sequential placement *)

\* C14: the path get_output_path returns did not exist when it returned; it
\* is <folder>/<filename> when that was free, and otherwise
\* <folder>/<stem>_<k><ext> for the smallest k >= 1 that was free.
C14_CollisionNaming ==
    callPc = "returned" =>
        LET out    == callResult.value
            folder == OutputFolder(callArgs.dt)
            name   == callArgs.media[2]
            free(n) == OutPath(folder, n) \notin callArgs.before
        IN  /\ callResult.raised = ""
            /\ out \notin callArgs.before
            /\ out.folder = folder
            /\ free(name) => out.name = name
            /\ ~free(name) =>
                   \E k \in 1..(Cardinality(callArgs.before) + 1) :
                       /\ out.name = Stem(name) \o <<"_">> \o NatToDigits(k) \o Suffix(name)
                       /\ \A j \in 1..(k - 1) :
                              ~free(Stem(name) \o <<"_">> \o NatToDigits(j) \o Suffix(name))

\* two files named a.jpg placed one after the other under 2021/January of an
\* empty Output: the second one is a_1.jpg next to the a.jpg of the first
C14_Witness ==
    /\ callPc = "returned"
    /\ callArgs.placed = 2
    /\ callArgs.dt = Some(FromTimestamp(RefEpoch))
    /\ callArgs.media = AllPaths[2]
    /\ callArgs.before =
           {OutPath(<<OutputDir, <<"2", "0", "2", "1">>, MONTH_NAMES[1]>>, NameA)}
    /\ callResult.value =
           OutPath(<<OutputDir, <<"2", "0", "2", "1">>, MONTH_NAMES[1]>>,
                   <<"a", "_", "1", ".", "j", "p", "g">>)

----------------------------------------------------------------------------
(* The ledger over a run of many files: lib/state.py mark_processed and    *)
(* save_state called as process_with_state and main call them               *)

MaxFlushFiles == 11

\* the k-th media file of a large input root
FlushPath(k) == <<NatToDigits(k), NameA>>

FlushPaths == {FlushPath(k) : k \in 1..MaxFlushFiles}

\* json.dump(list(self.processed_files)) with the list in one order: the
\* entries of the file do not depend on the order of the list
RECURSIVE ListInOrder(_, _)
ListInOrder(pf, k) ==
    IF k > MaxFlushFiles THEN << >>
    ELSE IF compute_file_hash(FlushPath(k)) \in pf
    THEN <<compute_file_hash(FlushPath(k))>> \o ListInOrder(pf, k + 1)
    ELSE ListInOrder(pf, k + 1)

JsonDumpInOrder(pf) == {ListFile(ListInOrder(pf, 1))}

FlushInit ==
    /\ stateFile \in {AbsentFile} \cup JsonDumpInOrder({compute_file_hash(FlushPath(1))})
    /\ processed_files = {}
    /\ newly_processed = 0
    /\ ledgerPc = "new"
    /\ loadedFrom = AbsentFile
    /\ loadOutcome = Return({})
    /\ base = {}
    /\ marked = {}
    /\ flushed = FALSE
    /\ DateIdle
    /\ MatchIdle
    /\ RunIdle
    /\ CallIdle
    /\ PoolIdle

FlushConstruct ==
    /\ ledgerPc = "new"
    /\ LedgerConstruct
    /\ UNCHANGED <<dateVars, matchVars, runVars, callVars, poolVars>>

\* a task that succeeded marks its file; a file is in one task, and a file
\* of the loaded ledger is in none
FlushMark ==
    /\ ledgerPc = "ready"
    /\ \E p \in FlushPaths :
           /\ p \notin marked
           /\ ~is_processed(base, p)
           /\ \E written \in JsonDumpInOrder(processed_files \cup {compute_file_hash(p)}) :
                  LedgerMarkAs(p, IF FlushDue(newly_processed + 1) THEN written
                                  ELSE stateFile)
    /\ UNCHANGED <<ledgerPc, loadedFrom, loadOutcome, base>>
    /\ UNCHANGED <<dateVars, matchVars, runVars, callVars, poolVars>>

\* the save_state of main after the pool
FlushFinal ==
    /\ ledgerPc = "ready"
    /\ \E written \in JsonDumpInOrder(processed_files) : LedgerSaveAs(written)
    /\ ledgerPc' = "saved"
    /\ UNCHANGED <<processed_files, newly_processed, loadedFrom, loadOutcome,
                   base, marked>>
    /\ UNCHANGED <<dateVars, matchVars, runVars, callVars, poolVars>>

FlushNext == FlushConstruct \/ FlushMark \/ FlushFinal

SpecFlush == FlushInit /\ [][FlushNext]_vars

----------------------------------------------------------------------------
(* Claims about the periodic flush *)

Unflushed == processed_files \ PersistedHashes(stateFile)

C16_WitnessFlushed ==
    /\ ledgerPc = "ready"
    /\ newly_processed = 10
    /\ Cardinality(PersistedHashes(stateFile)) >= 10
    /\ Unflushed = {}

----------------------------------------------------------------------------
(* The worker threads of main(): process_with_state run by the executor,   *)
(* one step per statement of mark_processed and save_state, and the main   *)
(* thread's as_completed loop                                               *)

NumWorkers == 2
MaxPoolTasks == 11
MaxPoolFaults == 1

Workers == 1..NumWorkers

\* the main thread, as a holder of the lock
MainThread == 0

runRest == <<tree, outFS, mainPc, runNo, tasks, taskPc, taskPlan, taskOk,
             lastExit, embeds, layoutAtStart, scheduled, faults, everOk, taskMsg>>

ledgerRest == <<ledgerPc, loadedFrom, loadOutcome, base>>

LockFree_Always == TRUE

\* `with lock:` enters when no thread holds the lock
LockFree == lock = None

\* the state main() is in when it enters the executor block with
\* MaxPoolTasks tasks and a fresh ledger
PoolInit ==
    /\ stateFile = AbsentFile
    /\ processed_files = {}
    /\ newly_processed = 0
    /\ ledgerPc = "ready"
    /\ loadedFrom = AbsentFile
    /\ loadOutcome = Return({})
    /\ base = {}
    /\ marked = {}
    /\ flushed = FALSE
    /\ lock = None
    /\ workerPc = [w \in Workers |-> "idle"]
    /\ workerTask = [w \in Workers |-> 0]
    /\ queue = 0
    /\ dumping = None
    /\ pendingOk = 0
    /\ pendingFail = 0
    /\ poolMain = "collecting"
    /\ DateIdle
    /\ MatchIdle
    /\ RunIdle
    /\ CallIdle

\* a worker thread takes the next work item of the executor's queue
WorkerTake(w) ==
    /\ workerPc[w] = "idle"
    /\ queue < MaxPoolTasks
    /\ queue' = queue + 1
    /\ workerTask' = [workerTask EXCEPT ![w] = queue + 1]
    /\ workerPc' = [workerPc EXCEPT ![w] = "processing"]
    /\ UNCHANGED <<lock, dumping, pendingOk, pendingFail, poolMain>>
    /\ UNCHANGED <<dateVars, matchVars, ledgerVars, runVars, callVars>>

\* process_file / process_file_without_json returned (success, message)
WorkerProcess(w) ==
    /\ workerPc[w] = "processing"
    /\ \E success \in BOOLEAN :
           /\ ~success => failed + pendingFail < MaxPoolFaults
           /\ IF success
              THEN /\ workerPc' = [workerPc EXCEPT ![w] = "acquire"]
                   /\ UNCHANGED <<workerTask, pendingFail>>
              ELSE /\ workerPc' = [workerPc EXCEPT ![w] = "idle"]
                   /\ workerTask' = [workerTask EXCEPT ![w] = 0]
                   /\ pendingFail' = pendingFail + 1
    /\ UNCHANGED <<lock, queue, dumping, pendingOk, poolMain>>
    /\ UNCHANGED <<dateVars, matchVars, ledgerVars, runVars, callVars>>

\* `with lock:` of process_with_state
WorkerAcquire(w) ==
    /\ workerPc[w] = "acquire"
    /\ LockFree
    /\ lock' = Some(w)
    /\ workerPc' = [workerPc EXCEPT ![w] = "add"]
    /\ UNCHANGED <<workerTask, queue, dumping, pendingOk, pendingFail, poolMain>>
    /\ UNCHANGED <<dateVars, matchVars, ledgerVars, runVars, callVars>>

\* mark_processed: the add and the increment
WorkerAdd(w) ==
    /\ workerPc[w] = "add"
    /\ processed_files' =
           processed_files \cup {compute_file_hash(FlushPath(workerTask[w]))}
    /\ newly_processed' = newly_processed + 1
    /\ marked' = marked \cup {FlushPath(workerTask[w])}
    /\ flushed' = FALSE
    /\ workerPc' = [workerPc EXCEPT ![w] = "added"]
    /\ UNCHANGED <<stateFile, ledgerRest>>
    /\ UNCHANGED <<lock, workerTask, queue, dumping, pendingOk, pendingFail, poolMain>>
    /\ UNCHANGED <<dateVars, matchVars, runVars, callVars>>

\* save_state: open(..., 'w') empties the file and list(...) is built
WorkerFlushBegin(w) ==
    /\ workerPc[w] = "added"
    /\ FlushDue(newly_processed)
    /\ stateFile' = BadJsonFile
    /\ dumping' = Some(processed_files)
    /\ workerPc' = [workerPc EXCEPT ![w] = "flushing"]
    /\ UNCHANGED <<processed_files, newly_processed, marked, flushed, ledgerRest>>
    /\ UNCHANGED <<lock, workerTask, queue, pendingOk, pendingFail, poolMain>>
    /\ UNCHANGED <<dateVars, matchVars, runVars, callVars>>

\* save_state: json.dump has written the list and the file is closed
WorkerFlushEnd(w) ==
    /\ workerPc[w] = "flushing"
    /\ stateFile' \in JsonDumpInOrder(dumping[1])
    /\ dumping' = None
    /\ flushed' = TRUE
    /\ workerPc' = [workerPc EXCEPT ![w] = "flushed"]
    /\ UNCHANGED <<processed_files, newly_processed, marked, ledgerRest>>
    /\ UNCHANGED <<lock, workerTask, queue, pendingOk, pendingFail, poolMain>>
    /\ UNCHANGED <<dateVars, matchVars, runVars, callVars>>

\* the end of the `with lock:` block and the return of process_with_state
WorkerRelease(w) ==
    /\ \/ workerPc[w] = "added" /\ ~FlushDue(newly_processed)
       \/ workerPc[w] = "flushed"
    /\ lock' = None
    /\ workerPc' = [workerPc EXCEPT ![w] = "idle"]
    /\ workerTask' = [workerTask EXCEPT ![w] = 0]
    /\ pendingOk' = pendingOk + 1
    /\ UNCHANGED <<queue, dumping, pendingFail, poolMain>>
    /\ UNCHANGED <<dateVars, matchVars, ledgerVars, runVars, callVars>>

\* as_completed yields a finished future and main enters `with lock:`
MainAcquire ==
    /\ poolMain = "collecting"
    /\ LockFree
    /\ lock' = Some(MainThread)
    /\ \/ /\ pendingOk > 0
          /\ pendingOk' = pendingOk - 1
          /\ poolMain' = "countOk"
          /\ UNCHANGED pendingFail
       \/ /\ pendingFail > 0
          /\ pendingFail' = pendingFail - 1
          /\ poolMain' = "countFail"
          /\ UNCHANGED pendingOk
    /\ UNCHANGED <<workerPc, workerTask, queue, dumping>>
    /\ UNCHANGED <<dateVars, matchVars, ledgerVars, runVars, callVars>>

\* the counters of main's loop, and the end of its `with lock:` block
MainCount ==
    /\ poolMain \in {"countOk", "countFail"}
    /\ IF poolMain = "countOk"
       THEN successful' = successful + 1 /\ UNCHANGED failed
       ELSE failed' = failed + 1 /\ UNCHANGED successful
    /\ lock' = None
    /\ poolMain' = "collecting"
    /\ UNCHANGED <<workerPc, workerTask, queue, dumping, pendingOk, pendingFail>>
    /\ UNCHANGED runRest
    /\ UNCHANGED <<dateVars, matchVars, ledgerVars, callVars>>

\* as_completed is exhausted and the executor block ends: shutdown(wait=True)
MainJoin ==
    /\ poolMain = "collecting"
    /\ successful + failed = MaxPoolTasks
    /\ \A w \in Workers : workerPc[w] = "idle"
    /\ poolMain' = "joined"
    /\ UNCHANGED <<lock, workerPc, workerTask, queue, dumping, pendingOk, pendingFail>>
    /\ UNCHANGED <<dateVars, matchVars, ledgerVars, runVars, callVars>>

\* state.save_state() after the executor block
MainFinalSave ==
    /\ poolMain = "joined"
    /\ stateFile' \in JsonDumpInOrder(processed_files)
    /\ flushed' = TRUE
    /\ poolMain' = "saved"
    /\ UNCHANGED <<processed_files, newly_processed, marked, ledgerRest>>
    /\ UNCHANGED <<lock, workerPc, workerTask, queue, dumping, pendingOk, pendingFail>>
    /\ UNCHANGED <<dateVars, matchVars, runVars, callVars>>

PoolNext ==
    \/ \E w \in Workers :
           \/ WorkerTake(w)
           \/ WorkerProcess(w)
           \/ WorkerAcquire(w)
           \/ WorkerAdd(w)
           \/ WorkerFlushBegin(w)
           \/ WorkerFlushEnd(w)
           \/ WorkerRelease(w)
    \/ MainAcquire
    \/ MainCount
    \/ MainJoin
    \/ MainFinalSave

SpecPool == PoolInit /\ [][PoolNext]_vars

----------------------------------------------------------------------------
(* Claims about the lock *)

InMarkProcessed(w) == workerPc[w] \in {"add", "added", "flushing", "flushed"}

\* C17: at most one worker task is inside mark_processed at a time, the set
\* a flush is writing is not added to while the write is under way, and the
\* final save_state runs only when every task has finished.
C17_ExclusiveLedger ==
    /\ Cardinality({w \in Workers : InMarkProcessed(w)}) <= 1
    /\ \A w \in Workers :
           workerPc[w] = "flushing" => dumping = Some(processed_files)
    /\ poolMain = "saved" =>
           /\ \A w \in Workers : workerPc[w] = "idle"
           /\ queue = MaxPoolTasks
           /\ pendingOk + pendingFail = 0
           /\ Cardinality(marked) = successful

C17_Witness ==
    \E w, v \in Workers :
        /\ workerPc[w] = "flushing"
        /\ workerPc[v] = "acquire"

C17_WitnessFinal ==
    /\ poolMain = "saved"
    /\ successful = MaxPoolTasks

----------------------------------------------------------------------------
(* Claims about the results of the tasks *)

Terminal(i) == taskPc[i] \in {"returned", "collected"}

FailureReasons ==
    {"Failed to parse JSON", "Unexpected error", "Failed to create output directory",
     "Failed to copy file", "Failed to embed metadata"}

\* C18: no exception leaves a task; a task that has returned is a success
\* with its summary or a failure with one of the reasons, and its result
\* does not change afterwards; when main reaches the summary every scheduled
\* task has been counted once, so successful + failed is the number of
\* scheduled tasks, whatever failed on the way.
C18_TaskResults ==
    [][/\ \A i \in DOMAIN tasks' :
              /\ taskPc'[i] # "raised"
              /\ Terminal(i)' =>
                     IF taskOk'[i] THEN taskMsg'[i] = "summary"
                     ELSE taskMsg'[i] \in FailureReasons
       /\ \A i \in DOMAIN tasks :
              (Terminal(i) /\ i \in DOMAIN tasks') =>
                  /\ Terminal(i)'
                  /\ taskOk'[i] = taskOk[i]
                  /\ taskMsg'[i] = taskMsg[i]
       /\ mainPc' = "finished" =>
              /\ \A i \in DOMAIN tasks' : taskPc'[i] = "collected"
              /\ successful' + failed' = Len(tasks')
              /\ Len(tasks') = Cardinality(scheduled')
              /\ failed' = Cardinality({i \in DOMAIN tasks' : ~taskOk'[i]})]_vars

C18_Witness ==
    /\ mainPc = "finished"
    /\ \E i, j \in DOMAIN tasks :
           /\ i < j
           /\ taskMsg[i] = "Unexpected error"
           /\ taskOk[j]

C18_WitnessReasons ==
    /\ mainPc = "finished"
    /\ \E i, j \in DOMAIN tasks :
           /\ taskMsg[i] = "Failed to parse JSON"
           /\ taskMsg[j] \in {"Failed to copy file", "Failed to embed metadata"}

----------------------------------------------------------------------------
(* The five extractors of lib/metadata.py on one record, and the date      *)
(* reference index main() builds from the records (lines 568-578)          *)

MaxPeople == 1

\* a JSON array
ListV(items) == [t |-> "list", items |-> items]

\* an element of 'people' that is an object, with the value under 'name'
PersonDict(name) == [t |-> "dict", name |-> name]

Persons ==
    {PersonDict(AbsentKey), PersonDict(NoneV), PersonDict(StrV(<< >>)),
     PersonDict(StrV(<<"x">>)), PersonDict(IntV(1)), IntV(1)}

PeopleValues ==
    {AbsentKey, NoneV, IntV(1), StrV(<< >>), StrV(<<"x">>)}
        \cup {ListV(l) : l \in SeqsUpTo(Persons, MaxPeople)}

\* the values under 'description' and 'url'
TextValues ==
    {AbsentKey, NoneV, IntV(1), ObjV(TRUE), StrV(<< >>), StrV(<<" ", "x">>)}

FieldsJson(p, c, g, pe, de, u) ==
    [shape |-> "dict", photoTakenTime |-> p, creationTime |-> c, geoData |-> g,
     people |-> pe, description |-> de, url |-> u]

FieldRecords ==
    {OtherJson} \cup
    {FieldsJson(p, c, g, pe, de, u) :
        p \in {MissingField, OtherField, DictField(StrV(NatToDigits(RefEpoch))),
               DictField(StrV(<<"x">>))},
        c \in {MissingField, DictField(StrV(NatToDigits(RefEpoch)))},
        g \in {MissingField, OtherField, GeoDict(IntV(1), IntV(1), AbsentKey),
               GeoDict(IntV(1), IntV(1), HugeIntV),
               GeoDict(StrV(<<"x">>), IntV(1), AbsentKey)},
        pe \in PeopleValues,
        de \in TextValues,
        u \in {AbsentKey, StrV(<<"x">>)}}

\* Python truthiness of person.get('name')
NameTruthy(v) ==
    CASE v.t \in {"absent", "none"} -> FALSE
      [] v.t = "str"                -> v.sv # << >>
      [] v.t = "int"                -> v.iv # 0
      [] OTHER                      -> TRUE

\* [person.get('name') for person in people if person.get('name')]
RECURSIVE TruthyNames(_)
TruthyNames(l) ==
    IF l = << >> THEN << >>
    ELSE IF NameTruthy(Head(l).name) THEN <<Head(l).name>> \o TruthyNames(Tail(l))
    ELSE TruthyNames(Tail(l))

\* lib/metadata.py extract_people: TypeError and AttributeError give []
extract_people(md) ==
    IF md.shape # "dict" THEN Return(<< >>)
    ELSE LET pe == md.people IN
         CASE pe.t = "absent" -> Return(<< >>)
           [] pe.t = "list"   ->
                  IF \E i \in DOMAIN pe.items : pe.items[i].t # "dict"
                  THEN Return(<< >>)
                  ELSE Return(TruthyNames(pe.items))
           [] OTHER           -> Return(<< >>)

\* metadata.get(key, '').strip(), '' on AttributeError
StrippedText(md, v) ==
    IF md.shape # "dict" THEN Return(<< >>)
    ELSE CASE v.t = "absent" -> Return(<< >>)
           [] v.t = "str"    -> Return(Strip(v.sv))
           [] OTHER          -> Return(<< >>)

\* lib/metadata.py extract_description
extract_description(md) ==
    StrippedText(md, IF md.shape = "dict" THEN md.description ELSE AbsentKey)

\* lib/metadata.py extract_url
extract_url(md) ==
    StrippedText(md, IF md.shape = "dict" THEN md.url ELSE AbsentKey)

\* `if metadata:` of the index loop: an object with a key is truthy, an
\* empty object or array is not, any other value may be either
MayBeTruthy(md) ==
    IF md.shape = "dict" /\ (md.photoTakenTime.shape # "missing"
                              \/ md.creationTime.shape # "missing"
                              \/ md.geoData.shape # "missing")
    THEN {TRUE} ELSE BOOLEAN

\* one round of the index loop of main (lines 571-576): the entries it
\* appends, or the exception that leaves main
IndexRound(md, truthy) ==
    IF ~truthy THEN Return(<< >>)
    ELSE IF extract_datetime(md).raised # "" THEN Raise(extract_datetime(md).raised)
    ELSE IF extract_datetime(md).value # None
    THEN Return(<<extract_datetime(md).value[1]>>)
    ELSE Return(<< >>)

FieldsInit ==
    /\ metadata \in FieldRecords
    /\ extracted = Return(None)
    /\ datePc = "input"
    /\ MatchIdle
    /\ CallIdle
    /\ LedgerIdle
    /\ RunIdle
    /\ PoolIdle

\* the five calls at the head of process_file (lines 159-163)
ExtractFields ==
    /\ datePc = "input"
    /\ extracted' = [dt          |-> extract_datetime(metadata),
                     gps         |-> extract_gps(metadata),
                     people      |-> extract_people(metadata),
                     description |-> extract_description(metadata),
                     url         |-> extract_url(metadata)]
    /\ datePc' = "returned"
    /\ UNCHANGED <<metadata>>
    /\ UNCHANGED <<matchVars, ledgerVars, runVars, callVars, poolVars>>

BuildDateIndex ==
    /\ datePc = "returned"
    /\ \E truthy \in MayBeTruthy(metadata) :
           callResult' = IndexRound(metadata, truthy)
    /\ datePc' = "indexed"
    /\ UNCHANGED <<metadata, extracted, callArgs, callPc>>
    /\ UNCHANGED <<matchVars, ledgerVars, runVars, poolVars>>

FieldsNext == ExtractFields \/ BuildDateIndex

SpecFields == FieldsInit /\ [][FieldsNext]_vars

----------------------------------------------------------------------------
(* Claims about the tolerance of the extractors *)

FieldNames == {"dt", "gps", "people", "description", "url"}

\* C20: whatever the shape of the record and of its fields, each of the
\* five extractors returns without raising, a record that is not an object
\* gives the absent or empty value for every field, and the round of the
\* date reference index over the record does not raise either.
C20_FieldTolerance ==
    /\ datePc \in {"returned", "indexed"} =>
           /\ \A f \in FieldNames : extracted[f].raised = ""
           /\ metadata.shape # "dict" =>
                  /\ extracted.dt = Return(None)
                  /\ extracted.gps = Return(None)
                  /\ extracted.people = Return(<< >>)
                  /\ extracted.description = Return(<< >>)
                  /\ extracted.url = Return(<< >>)
    /\ datePc = "indexed" => callResult.raised = ""

\* the part the code does have: people, description and url never raise
C20_PeopleAndTextTolerant ==
    datePc \in {"returned", "indexed"} =>
        \A f \in {"people", "description", "url"} : extracted[f].raised = ""

\* the round of the index raises exactly when extract_datetime does
C20_IndexAborts ==
    datePc = "indexed" =>
        (callResult.raised # "" => extracted.dt.raised = callResult.raised)

----------------------------------------------------------------------------
(* Claims about a sidecar that does not parse *)

UnpairedResults ==
    {"summary", "Failed to create output directory", "Failed to copy file"}

\* C21: a paired media file whose sidecar cannot be parsed is handled as a
\* file without a record: its task ends as the task of an unpaired file
\* ends, placed under Output unless the copy itself fails, and the run
\* goes on.
C21_UnparseableAsNoRecord ==
    /\ mainPc # "failing"
    /\ \A i \in DOMAIN tasks :
           (tasks[i].json.kind = "unparseable" /\ Terminal(i)) =>
               /\ taskMsg[i] \in UnpairedResults
               /\ taskOk[i] => tasks[i].media \in everOk

\* the part the code does have: the sidecar is never fatal to the run, the
\* task fails with its reason and puts nothing under Output
C21_UnparseableFailsTask ==
    /\ mainPc # "failing"
    /\ \A i \in DOMAIN tasks :
           (tasks[i].json.kind = "unparseable" /\ Terminal(i)) =>
               /\ ~taskOk[i]
               /\ taskMsg[i] = "Failed to parse JSON"

----------------------------------------------------------------------------
(* The scan: lib/scanner.py scan_folder over the entries rglob('*') yields. *)
(* A path is the components of the root, the directories below it and the  *)
(* name; find_matching_json is taken by its result.                         *)

MaxScanFiles == 2

MEDIA_EXTENSIONS ==
    {<<".", "j", "p", "g">>, <<".", "j", "p", "e", "g">>, <<".", "p", "n", "g">>,
     <<".", "g", "i", "f">>, <<".", "h", "e", "i", "c">>, <<".", "w", "e", "b", "p">>,
     <<".", "d", "n", "g">>, <<".", "n", "e", "f">>, <<".", "m", "o", "v">>,
     <<".", "m", "p", "4">>, <<".", "a", "v", "i">>}

\* str.lower() on the letters the names of the model use
LowerChar(c) ==
    CASE c = "J" -> "j"
      [] c = "P" -> "p"
      [] c = "G" -> "g"
      [] c = "O" -> "o"
      [] OTHER   -> c

Lower(str) == [i \in 1..Len(str) |-> LowerChar(str[i])]

\* one path rglob yields: directories below the root, name, whether it is
\* a regular file, whether find_matching_json finds a sidecar for it
ScanEntry(dirs, name, is_file, json) ==
    [dirs |-> dirs, name |-> name, is_file |-> is_file, json |-> json]

\* file_path.parts
Parts(root, e) == Range(root) \cup Range(e.dirs) \cup {e.name}

\* the four tests of the loop (lines 106-120)
ScanKeeps(root, e) ==
    /\ e.is_file
    /\ ~StartsWith(e.name, <<".", "_">>)
    /\ Lower(Suffix(e.name)) \in MEDIA_EXTENSIONS
    /\ OutputDir \notin Parts(root, e)

\* scan_folder: the paired and the unpaired list, as sets (rglob yields a
\* path once, in no particular order)
scan_folder(root, entries) ==
    [media_with_json    |-> {e \in entries : ScanKeeps(root, e) /\ e.json},
     media_without_json |-> {e \in entries : ScanKeeps(root, e) /\ ~e.json}]

DirA == <<"A">>

ScanRoots == {<<<<"r">>>>, <<OutputDir, <<"r">>>>}

ScanDirs == {<< >>, <<DirA>>, <<OutputDir>>, <<DirA, OutputDir>>, <<OutputDir, DirA>>}

ScanNames ==
    {NameA, <<"a", ".", "J", "P", "G">>, <<".", "_">> \o NameA,
     <<"a", ".", "t", "x", "t">>, <<"a", ".", "m", "p", "4">>, OutputDir,
     <<".", "j", "p", "g">>}

ScanEntries ==
    {ScanEntry(d, n, f, j) : d \in ScanDirs, n \in ScanNames, f \in BOOLEAN, j \in BOOLEAN}

\* a directory holds a name once
ScanTrees ==
    {t \in UNION {{Range(q) : q \in [1..k -> ScanEntries]} : k \in 0..MaxScanFiles} :
        \A e1, e2 \in t : (e1.dirs = e2.dirs /\ e1.name = e2.name) => e1 = e2}

ScanInit ==
    /\ callArgs \in {[root |-> r, entries |-> t] : r \in ScanRoots, t \in ScanTrees}
    /\ callResult = Return(None)
    /\ callPc = "input"
    /\ DateIdle
    /\ MatchIdle
    /\ LedgerIdle
    /\ RunIdle
    /\ PoolIdle

ScanFolder ==
    /\ callPc = "input"
    /\ callResult' = Return(scan_folder(callArgs.root, callArgs.entries))
    /\ callPc' = "returned"
    /\ UNCHANGED callArgs
    /\ UNCHANGED <<dateVars, matchVars, ledgerVars, runVars, poolVars>>

ScanNext == ScanFolder

SpecScan == ScanInit /\ [][ScanNext]_vars

----------------------------------------------------------------------------
(* Claims about the scan *)

\* the entry is in <root>/Output or below it
UnderOutputRoot(e) == e.dirs # << >> /\ e.dirs[1] = OutputDir

IsMediaName(name) ==
    /\ ~StartsWith(name, <<".", "_">>)
    /\ Lower(Suffix(name)) \in MEDIA_EXTENSIONS

\* C22: scan_folder returns an entry, in exactly one of its two lists, iff
\* the entry is a regular file with a media extension (in any case), its
\* name does not start with "._" and it is not under <root>/Output; a media
\* file in any other directory is returned.
C22_ScanFilter ==
    callPc = "returned" =>
        LET r == callResult.value IN
        /\ r.media_with_json \cap r.media_without_json = {}
        /\ \A e \in callArgs.entries :
               (e \in r.media_with_json \cup r.media_without_json)
                   <=> (e.is_file /\ IsMediaName(e.name) /\ ~UnderOutputRoot(e))

\* what the code does have: the same with "no component of the path, the
\* root's included, is named Output" in place of "not under <root>/Output"
C22_ScanFilterAnyComponent ==
    callPc = "returned" =>
        LET r == callResult.value IN
        /\ r.media_with_json \cap r.media_without_json = {}
        /\ \A e \in callArgs.entries :
               (e \in r.media_with_json \cup r.media_without_json)
                   <=> (/\ e.is_file
                        /\ IsMediaName(e.name)
                        /\ \A c \in Range(callArgs.root) \cup Range(e.dirs) : c # OutputDir)

----------------------------------------------------------------------------
(* extract_number_from_filename on its own *)

MaxNameLen == 8

NumberAlphabet == {"1", "2", "x"}

NumberNames == SeqsUpTo(NumberAlphabet, MaxNameLen)

NumberInit ==
    /\ callArgs \in NumberNames
    /\ callResult = Return(None)
    /\ callPc = "input"
    /\ DateIdle
    /\ MatchIdle
    /\ LedgerIdle
    /\ RunIdle
    /\ PoolIdle

ExtractNumber ==
    /\ callPc = "input"
    /\ callResult' = Return(extract_number_from_filename(callArgs))
    /\ callPc' = "returned"
    /\ UNCHANGED callArgs
    /\ UNCHANGED <<dateVars, matchVars, ledgerVars, runVars, poolVars>>

NumberNext == ExtractNumber

SpecNumber == NumberInit /\ [][NumberNext]_vars

----------------------------------------------------------------------------
(* Claims about extract_number_from_filename *)

\* s[i..j] is a maximal run of digits of s
IsRun(s, i, j) ==
    /\ 1 <= i
    /\ i <= j
    /\ j <= Len(s)
    /\ \A k \in i..j : IsDigit(s[k])
    /\ i = 1 \/ ~IsDigit(s[i - 1])
    /\ j = Len(s) \/ ~IsDigit(s[j + 1])

RunsOf(s) == {ij \in (1..Len(s)) \X (1..Len(s)) : IsRun(s, ij[1], ij[2])}

LongRunsOf(s) == {ij \in RunsOf(s) : ij[2] - ij[1] + 1 >= LongRun}

RunValue(s, ij) == Some(DigitsToNat(SubSeq(s, ij[1], ij[2])))

\* C23 as stated: the result is the longest run of at least 3 digits; with
\* no such run it is the last run of digits; with no digit it is None.
C23_LongestRun ==
    callPc = "returned" =>
        LET s == callArgs IN
        IF LongRunsOf(s) # {}
        THEN \E ij \in LongRunsOf(s) :
                 /\ \A other \in LongRunsOf(s) : other[2] - other[1] <= ij[2] - ij[1]
                 /\ callResult.value = RunValue(s, ij)
        ELSE IF RunsOf(s) # {}
        THEN \E ij \in RunsOf(s) :
                 /\ \A other \in RunsOf(s) : other[1] <= ij[1]
                 /\ callResult.value = RunValue(s, ij)
        ELSE callResult.value = None

\* C23 as amended: the result is the first (leftmost) run of at least 3
\* digits, whatever its length; with no such run it is the last run of
\* digits; with no digit it is None.
C23_FirstLongRun ==
    callPc = "returned" =>
        LET s == callArgs IN
        IF LongRunsOf(s) # {}
        THEN \E ij \in LongRunsOf(s) :
                 /\ \A other \in LongRunsOf(s) : ij[1] <= other[1]
                 /\ callResult.value = RunValue(s, ij)
        ELSE IF RunsOf(s) # {}
        THEN \E ij \in RunsOf(s) :
                 /\ \A other \in RunsOf(s) : other[1] <= ij[1]
                 /\ callResult.value = RunValue(s, ij)
        ELSE callResult.value = None

C23_Witness ==
    /\ callPc = "returned"
    /\ callArgs = <<"1", "1", "1", "x", "2", "2", "2", "2">>
    /\ callResult = Return(Some(111))

C23_WitnessShort ==
    /\ callPc = "returned"
    /\ callArgs = <<"1", "2", "x", "2", "1", "x">>
    /\ callResult = Return(Some(21))

----------------------------------------------------------------------------
(* Dates read from the file itself: lib/exif_reader.py                     *)
(* read_exif_date_enhanced, read_exif_date, read_any_date.  exiftool is an *)
(* external program: one run of it for one attribute ends in a timeout, in *)
(* another error, or completes with a return code and its standard output. *)
(* get_exiftool_path is imported from lib.exiftool (exif_reader.py:10),    *)
(* which does not define it; it is taken as the lookup of the program: the *)
(* path, or None when the program is not installed.                        *)

TimedOut == [kind |-> "timeout"]

Failed == [kind |-> "error"]

Completed(returncode, stdout) ==
    [kind |-> "completed", returncode |-> returncode, stdout |-> stdout]

NonEmpty(piece) == piece # << >>

\* str.split(sep): the pieces between the occurrences of sep, empty ones kept
RECURSIVE SplitOn(_, _)
SplitOn(s, sep) ==
    IF \A i \in 1..Len(s) : s[i] # sep THEN << s >>
    ELSE LET i == CHOOSE k \in 1..Len(s) :
                      s[k] = sep /\ \A j \in 1..(k - 1) : s[j] # sep
         IN  << SubSeq(s, 1, i - 1) >> \o SplitOn(SubSeq(s, i + 1, Len(s)), sep)

\* str.split(): the blank-separated words
Words(s) == SelectSeq(SplitOn(s, " "), NonEmpty)

\* a strptime number field of one to width digits within lo..hi
FieldOk(piece, width, lo, hi) ==
    /\ AllDigits(piece)
    /\ Len(piece) <= width
    /\ DigitsToNat(piece) >= lo
    /\ DigitsToNat(piece) <= hi

\* datetime(y, m, d, ...) accepts the calendar date
ValidDate(y, m, d) ==
    /\ y >= 1
    /\ m \in 1..12
    /\ d >= 1
    /\ LET dt == [year |-> y, month |-> m, day |-> d,
                  hour |-> 0, minute |-> 0, second |-> 0]
       IN  FromTimestamp(Timestamp(dt)) = dt

\* datetime.strptime(s, "%Y:%m:%d"); None stands for ValueError
strptime_date(s) ==
    LET parts == SplitOn(s, ":") IN
    IF /\ Len(parts) = 3
       /\ AllDigits(parts[1])
       /\ Len(parts[1]) = 4
       /\ FieldOk(parts[2], 2, 1, 12)
       /\ FieldOk(parts[3], 2, 1, 31)
       /\ ValidDate(DigitsToNat(parts[1]), DigitsToNat(parts[2]), DigitsToNat(parts[3]))
    THEN Some([year |-> DigitsToNat(parts[1]), month |-> DigitsToNat(parts[2]),
               day |-> DigitsToNat(parts[3]), hour |-> 0, minute |-> 0, second |-> 0])
    ELSE None

\* datetime.strptime(s, "%Y:%m:%d %H:%M:%S"); None stands for ValueError
strptime_full(s) ==
    LET parts == SplitOn(s, ":")
        mid   == IF Len(parts) = 5 THEN SplitOn(parts[3], " ") ELSE << >>
        words == SelectSeq(mid, NonEmpty)
    IN  IF /\ Len(parts) = 5
           /\ Len(words) = 2
           /\ mid[1] # << >>
           /\ mid[Len(mid)] # << >>
           /\ strptime_date(parts[1] \o <<":">> \o parts[2] \o <<":">> \o words[1]) # None
           /\ FieldOk(words[2], 2, 0, 23)
           /\ FieldOk(parts[4], 2, 0, 59)
           /\ FieldOk(parts[5], 2, 0, 59)
        THEN Some([year |-> DigitsToNat(parts[1]), month |-> DigitsToNat(parts[2]),
                   day |-> DigitsToNat(words[1]), hour |-> DigitsToNat(words[2]),
                   minute |-> DigitsToNat(parts[4]), second |-> DigitsToNat(parts[5])])
        ELSE None

\* the two parsing attempts (lines 55-67 and 156-164) on the stripped text
parse_exif_date_FullOnly(date_str) == strptime_full(date_str)

parse_exif_date(date_str) ==
    IF strptime_full(date_str) # None THEN strptime_full(date_str)
    ELSE strptime_date(Words(date_str)[1])

\* one pass of the loop body of read_exif_date_enhanced (lines 43-74), and
\* the body of read_exif_date (lines 144-171): the date of one attribute
read_attribute(run) ==
    IF run.kind = "completed" /\ run.returncode = 0 /\ Strip(run.stdout) # << >>
    THEN parse_exif_date(Strip(run.stdout))
    ELSE None

date_fields == <<"DateTimeOriginal", "CreateDate", "ModifyDate">>

read_exif_date_enhanced_PrimaryOnly(exiftool_path, runs) ==
    IF exiftool_path = None THEN None
    ELSE IF read_attribute(runs["DateTimeOriginal"]) # None
         THEN Some(DatedBy(read_attribute(runs["DateTimeOriginal"])[1], "DateTimeOriginal"))
         ELSE None

\* read_exif_date_enhanced (lines 15-76); runs maps each attribute to the
\* outcome of running exiftool for it
read_exif_date_enhanced(exiftool_path, runs) ==
    IF exiftool_path = None THEN None
    ELSE LET found == {i \in 1..Len(date_fields) : read_attribute(runs[date_fields[i]]) # None}
         IN  IF found = {} THEN None
             ELSE LET i == CHOOSE k \in found : \A j \in found : k <= j
                  IN  Some(DatedBy(read_attribute(runs[date_fields[i]])[1], date_fields[i]))

\* read_exif_date (lines 130-171)
read_exif_date(exiftool_path, runs) ==
    IF exiftool_path = None THEN None
    ELSE read_attribute(runs["DateTimeOriginal"])

\* read_any_date (lines 174-200)
read_any_date(exiftool_path, runs, use_file_mtime, mtime, now, min_age_days) ==
    IF read_exif_date_enhanced(exiftool_path, runs) # None
    THEN read_exif_date_enhanced(exiftool_path, runs)
    ELSE IF use_file_mtime /\ read_file_mtime_safe(mtime, now, min_age_days) # None
    THEN read_file_mtime_safe(mtime, now, min_age_days)
    ELSE None

(* The inputs *)

Pad2(n) == IF n < 10 THEN <<"0">> \o NatToDigits(n) ELSE NatToDigits(n)

\* the text exiftool prints for a date and for a date with its time
DateText(dt) ==
    NatToDigits(dt.year) \o <<":">> \o Pad2(dt.month) \o <<":">> \o Pad2(dt.day)

StampText(dt) ==
    DateText(dt) \o <<" ">> \o Pad2(dt.hour) \o <<":">> \o Pad2(dt.minute)
                 \o <<":">> \o Pad2(dt.second)

ExifDates ==
    {[year |-> 2020, month |-> 3, day |-> 5, hour |-> 10, minute |-> 20, second |-> 30],
     [year |-> 2019, month |-> 12, day |-> 31, hour |-> 23, minute |-> 59, second |-> 59]}

Midnight(dt) == [dt EXCEPT !.hour = 0, !.minute = 0, !.second = 0]

ZoneSuffix == <<"+", "0", "2", ":", "0", "0">>

\* texts no attempt can parse: the zero date cameras write, a day that is
\* not in the month, and a word
BadTexts ==
    {<<"0", "0", "0", "0", ":", "0", "0", ":", "0", "0", " ",
       "0", "0", ":", "0", "0", ":", "0", "0">>,
     <<"2", "0", "2", "0", ":", "0", "2", ":", "3", "0", " ",
       "1", "0", ":", "0", "0", ":", "0", "0">>,
     <<"x">>}

BlankTexts == {<< >>, <<" ">>}

ExifTexts ==
    {StampText(dt) : dt \in ExifDates}
        \cup {<<" ">> \o StampText(dt) \o <<" ">> : dt \in ExifDates}
        \cup {DateText(dt) : dt \in ExifDates}
        \cup {StampText(dt) \o ZoneSuffix : dt \in ExifDates}
        \cup BadTexts \cup BlankTexts

ExifRuns ==
    {TimedOut, Failed} \cup {Completed(1, StampText(dt)) : dt \in ExifDates}
        \cup {Completed(0, t) : t \in ExifTexts}

ToolPaths == {None, Some("exiftool")}

\* a month and a half old, a week old, unreadable
ExifMtimes == {Some(RefEpoch - 45 * SecondsPerDay), Some(RefEpoch - 7 * SecondsPerDay), None}

ExifInit ==
    /\ callArgs \in {[exiftool_path |-> p, runs |-> r, use_file_mtime |-> u, mtime |-> t] :
                         p \in ToolPaths, r \in [Range(date_fields) -> ExifRuns],
                         u \in BOOLEAN, t \in ExifMtimes}
    /\ callResult = Return(None)
    /\ callPc = "input"
    /\ DateIdle
    /\ MatchIdle
    /\ LedgerIdle
    /\ RunIdle
    /\ PoolIdle

ReadAnyDate ==
    /\ callPc = "input"
    /\ callResult' = Return(read_any_date(callArgs.exiftool_path, callArgs.runs,
                                          callArgs.use_file_mtime, callArgs.mtime,
                                          RefEpoch, DefaultMinAge))
    /\ callPc' = "returned"
    /\ UNCHANGED callArgs
    /\ UNCHANGED <<dateVars, matchVars, ledgerVars, runVars, poolVars>>

ExifNext == ReadAnyDate

SpecExif == ExifInit /\ [][ExifNext]_vars

----------------------------------------------------------------------------
(* Claims about the file-based resolution order *)

\* the value of an attribute as the program can see it: the text exiftool
\* printed for it, blanks around it dropped; empty when the program is not
\* installed, did not complete or reported failure
AttributeValue(a) ==
    IF /\ callArgs.exiftool_path # None
       /\ callArgs.runs[a].kind = "completed"
       /\ callArgs.runs[a].returncode = 0
    THEN Strip(callArgs.runs[a].stdout)
    ELSE << >>

\* the date a value stands for: the full format, else its date portion at
\* midnight
ValueDates(v) ==
    {dt \in ExifDates : v = StampText(dt)}
        \cup {Midnight(dt) : dt \in {x \in ExifDates :
                  /\ v # StampText(x)
                  /\ Len(v) >= Len(DateText(x))
                  /\ SubSeq(v, 1, Len(DateText(x))) = DateText(x)
                  /\ Len(v) = Len(DateText(x)) \/ v[Len(DateText(x)) + 1] = " "}}

\* C24: read_any_date returns the first of DateTimeOriginal, CreateDate
\* and ModifyDate whose value is non-empty and parseable (full format, else
\* the date portion at midnight), an empty or unparseable attribute falling
\* through to the next; only when all three fail, the fallback is enabled
\* and the modification time passes validation, the modification time; the
\* provenance names the source that supplied the date.
C24_ResolutionOrder ==
    callPc = "returned" =>
        LET good == {i \in 1..3 : ValueDates(AttributeValue(date_fields[i])) # {}}
            mtime == read_file_mtime_safe(callArgs.mtime, RefEpoch, DefaultMinAge)
        IN  IF good # {}
            THEN \E i \in good :
                     /\ \A j \in good : i <= j
                     /\ callResult.value # None
                     /\ callResult.value[1].source = date_fields[i]
                     /\ callResult.value[1].date \in ValueDates(AttributeValue(date_fields[i]))
            ELSE IF callArgs.use_file_mtime /\ mtime # None
            THEN /\ callResult.value = mtime
                 /\ callResult.value[1].source = "file_mtime"
            ELSE callResult.value = None

\* the primary attribute is the zero date, the fallback attribute holds a
\* date without a time: the fallback attribute supplies midnight of its date
C24_Witness ==
    /\ callPc = "returned"
    /\ callArgs.exiftool_path # None
    /\ callArgs.runs["DateTimeOriginal"].kind = "completed"
    /\ callArgs.runs["DateTimeOriginal"].returncode = 0
    /\ callArgs.runs["DateTimeOriginal"].stdout \in BadTexts
    /\ callArgs.runs["CreateDate"] \in {Completed(0, DateText(dt)) : dt \in ExifDates}
    /\ callResult.value # None
    /\ callResult.value[1].source = "CreateDate"
    /\ callResult.value[1].date.hour = 0

\* no attribute yields a date and the modification time supplies it
C24_WitnessMtime ==
    /\ callPc = "returned"
    /\ callArgs.exiftool_path # None
    /\ \A a \in Range(date_fields) : ValueDates(AttributeValue(a)) = {}
    /\ callArgs.runs["ModifyDate"] = TimedOut
    /\ callResult.value # None
    /\ callResult.value[1].source = "file_mtime"

----------------------------------------------------------------------------
(* The date of an unpaired file in the normal run: main.py                 *)
(* process_file_without_json, lines 251-262                                *)

\* date_to_use and date_source, from what read_exif_date returned and the
\* guessed date of the task
unpaired_date(exif_date, guessed_date) ==
    IF exif_date # None THEN Some(DatedBy(exif_date[1], "EXIF"))
    ELSE IF guessed_date # None THEN Some(DatedBy(guessed_date[1], "guessed"))
    ELSE None

UnpairedRuns ==
    {TimedOut, Completed(0, << >>), Completed(0, <<"x">>)}
        \cup {Completed(0, StampText(dt)) : dt \in ExifDates}

GuessedDates == {None, Some(FromTimestamp(RefEpoch))}

UnpairedInit ==
    /\ callArgs \in {[exiftool_path |-> p, runs |-> r, guessed_date |-> g] :
                         p \in ToolPaths, r \in [Range(date_fields) -> UnpairedRuns],
                         g \in GuessedDates}
    /\ callResult = Return(None)
    /\ callPc = "input"
    /\ DateIdle
    /\ MatchIdle
    /\ LedgerIdle
    /\ RunIdle
    /\ PoolIdle

UnpairedDate ==
    /\ callPc = "input"
    /\ callResult' = Return(unpaired_date(read_exif_date(callArgs.exiftool_path, callArgs.runs),
                                          callArgs.guessed_date))
    /\ callPc' = "returned"
    /\ UNCHANGED callArgs
    /\ UNCHANGED <<dateVars, matchVars, ledgerVars, runVars, poolVars>>

UnpairedNext == UnpairedDate

SpecUnpaired == UnpairedInit /\ [][UnpairedNext]_vars

----------------------------------------------------------------------------
(* Claims about the date of an unpaired file *)

\* what the chain of the reorganization pass finds in the file itself
EnhancedDate == read_exif_date_enhanced(callArgs.exiftool_path, callArgs.runs)

\* C25: the date the normal run uses for an unpaired file is the
\* DateTimeOriginal, else CreateDate, else ModifyDate date of the file, and
\* the guessed date is used only when none of the three yields a date.
C25_SameChain ==
    callPc = "returned" =>
        IF EnhancedDate # None
        THEN /\ callResult.value # None
             /\ callResult.value[1].date = EnhancedDate[1].date
             /\ callResult.value[1].source = "EXIF"
        ELSE callResult.value = unpaired_date(None, callArgs.guessed_date)

\* what holds instead: only DateTimeOriginal is read, and CreateDate and
\* ModifyDate never supply the date
C25_PrimaryOnly ==
    callPc = "returned" =>
        IF EnhancedDate # None /\ EnhancedDate[1].source = "DateTimeOriginal"
        THEN /\ callResult.value # None
             /\ callResult.value[1].date = EnhancedDate[1].date
             /\ callResult.value[1].source = "EXIF"
        ELSE callResult.value = unpaired_date(None, callArgs.guessed_date)

----------------------------------------------------------------------------
(* The normal run over a root that holds one media file, for every state   *)
(* the file and its sidecar can be in                                       *)

\* a record without photoTakenTime and creationTime
UndatedRecord == DictJson(MissingField, MissingField)

\* the DateTimeOriginal of the file, in seconds after the date of DatedRecord
ExifOffsets == {0 - 61, 0 - 60, 0, 60, 61}

ExifStates == {None} \cup {Some(FromTimestamp(RefEpoch + k)) : k \in ExifOffsets}

GuessStates == {None, Some(FromTimestamp(RefEpoch + 40 * SecondsPerDay))}

TaskProfiles ==
    {Profile(sc, exif, guess) :
         sc \in {RecordSidecar(DatedRecord), RecordSidecar(UndatedRecord), NoSidecar},
         exif \in ExifStates, guess \in GuessStates}

OneInit == RunInitOver([{AllPaths[1]} -> TaskProfiles])

SpecOne == OneInit /\ [][Next]_vars

----------------------------------------------------------------------------
(* Claims about the date of a paired file *)

\* the tasks that hold the plan process_file computed for a paired file
PlannedPaired == {i \in DOMAIN tasks : taskPc[i] = "probed" /\ tasks[i].json.kind = "record"}

RecordDate(i) == extract_datetime(tasks[i].json.md).value

\* C26: a paired file is dated by its record whenever the record has a
\* date, and otherwise by the next source that has one, the date embedded
\* in the file first; it goes to Unknown only when no source has a date.
C26_ProvenanceOrder ==
    \A i \in PlannedPaired :
        LET embedded == tree[tasks[i].media].exif
            guess    == tree[tasks[i].media].guess
        IN  /\ RecordDate(i) # None => taskPlan[i].dt = RecordDate(i)
            /\ (RecordDate(i) = None /\ embedded # None) => taskPlan[i].dt = embedded
            /\ taskPlan[i].out.folder = <<OutputDir, UnknownDir>>
                   => (RecordDate(i) = None /\ embedded = None /\ guess = None)

\* what holds instead: the record is the only source of a paired file
C26_RecordOnly ==
    \A i \in PlannedPaired :
        /\ taskPlan[i].dt = RecordDate(i)
        /\ taskPlan[i].out.folder = <<OutputDir, UnknownDir>> <=> RecordDate(i) = None

----------------------------------------------------------------------------
(* Claims about the reconciliation check *)

\* task i leaves the copy and embed part of process_file in this step
Commits(i) ==
    /\ taskPc[i] = "probed"
    /\ i \in DOMAIN taskPc'
    /\ taskPc'[i] = "finished"

\* the DateTimeOriginal of the file of task i is within a minute of d
WithinAMinute(i, d) ==
    LET embedded == tree[tasks[i].media].exif IN
    /\ embedded # None
    /\ Timestamp(embedded[1]) - Timestamp(d) <= 60
    /\ Timestamp(d) - Timestamp(embedded[1]) <= 60

\* C27: a paired file with a record date whose DateTimeOriginal is present
\* and at most 60 seconds from the record date is copied to its destination
\* without embedding, and the task succeeds; when DateTimeOriginal is
\* absent or further away the file is copied and the embedding is done.
\* A failure to create the folder, to copy or to embed counts as a fault.
C27_Reconciliation ==
    [][\A i \in DOMAIN tasks :
           (Commits(i) /\ tasks[i].json.kind = "record" /\ RecordDate(i) # None) =>
               LET dest   == taskPlan[i].out
                   source == tree[tasks[i].media].exif
                   copied == dest \in DOMAIN outFS'
               IN  /\ dest.folder = <<OutputDir, NatToDigits(RecordDate(i)[1].year),
                                      MONTH_NAMES[RecordDate(i)[1].month]>>
                   /\ WithinAMinute(i, RecordDate(i)[1]) => embeds' = embeds
                   /\ (WithinAMinute(i, RecordDate(i)[1]) /\ faults' = faults) =>
                          /\ copied
                          /\ outFS'[dest].exif = source
                          /\ taskOk'[i]
                   /\ (~WithinAMinute(i, RecordDate(i)[1]) /\ faults' = faults) =>
                          /\ copied
                          /\ embeds' = embeds + 1
                          /\ outFS'[dest].exif = RecordDate(i)
                          /\ taskOk'[i]]_vars

\* a file exactly 60 seconds off its record date was copied as it is
C27_Witness ==
    \E i \in DOMAIN tasks :
        /\ taskPc[i] = "finished"
        /\ taskOk[i]
        /\ tasks[i].json = RecordSidecar(DatedRecord)
        /\ tree[tasks[i].media].exif = Some(FromTimestamp(RefEpoch + 60))
        /\ embeds = 0
        /\ \E o \in DOMAIN outFS : outFS[o].exif = Some(FromTimestamp(RefEpoch + 60))

\* a file 61 seconds off its record date was copied and embedded
C27_WitnessEmbed ==
    \E i \in DOMAIN tasks :
        /\ taskPc[i] = "finished"
        /\ taskOk[i]
        /\ tasks[i].json = RecordSidecar(DatedRecord)
        /\ tree[tasks[i].media].exif = Some(FromTimestamp(RefEpoch + 61))
        /\ embeds = 1
        /\ \E o \in DOMAIN outFS : outFS[o].exif = Some(FromTimestamp(RefEpoch))

----------------------------------------------------------------------------
(* Claims about the source files *)

\* C30: no step of a normal run changes a source media file or its sidecar:
\* what a task copies, embeds into or stamps is a path under Output, on
\* success and on failure, so the date read from a source file stays the
\* same over any number of runs.
C30_SourcesUntouched ==
    [][/\ tree' = tree
       /\ \A o \in DOMAIN outFS' :
              (o \notin DOMAIN outFS \/ outFS'[o] # outFS[o]) => o.folder[1] = OutputDir]_vars

\* a second run has begun, the first one embedded the record date into the
\* copy, and the source file still has no date
C30_Witness ==
    /\ runNo = 2
    /\ \E m \in DOMAIN tree :
           /\ tree[m].sidecar = RecordSidecar(DatedRecord)
           /\ tree[m].exif = None
           /\ m \in everOk
           /\ \E o \in DOMAIN outFS :
                  o.name = m[2] /\ outFS[o].exif = Some(FromTimestamp(RefEpoch))

----------------------------------------------------------------------------
(* get_output_path on its own, for a date in every month *)

PathYears == {1999, 2021}

PathDates ==
    {None} \cup {Some([year |-> y, month |-> m, day |-> 15,
                       hour |-> 12, minute |-> 0, second |-> 0]) :
                     y \in PathYears, m \in 1..12}

\* what may already lie under Output: nothing, or a.jpg in the Unknown
\* folder and in some month folders
PathLayouts ==
    {<< >>}
        \cup {[o \in {OutPath(OutputFolder(dt), NameA) : dt \in D} |-> OutFile(None)] :
                  D \in {PathDates, {None}}}

PathInit ==
    /\ callArgs \in {[fs |-> fs, media |-> m, dt |-> dt] :
                         fs \in PathLayouts, m \in Range(AllPaths), dt \in PathDates}
    /\ callResult = Return(None)
    /\ callPc = "input"
    /\ DateIdle
    /\ MatchIdle
    /\ LedgerIdle
    /\ RunIdle
    /\ PoolIdle

GetOutputPath ==
    /\ callPc = "input"
    /\ callResult' = Return(get_output_path(callArgs.fs, callArgs.media, callArgs.dt))
    /\ callPc' = "returned"
    /\ UNCHANGED callArgs
    /\ UNCHANGED <<dateVars, matchVars, ledgerVars, runVars, poolVars>>

PathNext == GetOutputPath

SpecPath == PathInit /\ [][PathNext]_vars

----------------------------------------------------------------------------
(* Claims about the placement path *)

\* the directories a file of the given name can come from
SourceDirs == {p[1] : p \in Range(AllPaths)}

\* C28: the destination is Output/Unknown/<filename> when no date is
\* resolved and Output/<year>/<MonthName>/<filename> otherwise, year and
\* month taken from the date and MonthName one of the twelve calendar
\* names; apart from the collision suffix it depends only on the root, the
\* date and the filename.
C28_PlacementPath ==
    callPc = "returned" =>
        LET out  == callResult.value
            name == callArgs.media[2]
            dt   == callArgs.dt
        IN  /\ out.folder[1] = OutputDir
            /\ dt = None => out.folder = <<OutputDir, <<"U", "n", "k", "n", "o", "w", "n">> >>
            /\ dt # None =>
                   /\ Len(out.folder) = 3
                   /\ out.folder[2] = NatToDigits(dt[1].year)
                   /\ out.folder[3] = MONTH_NAMES[dt[1].month]
                   /\ out.folder[3] \in Range(MONTH_NAMES)
                   /\ dt[1].month = 1 => out.folder[3] = <<"J", "a", "n", "u", "a", "r", "y">>
                   /\ dt[1].month = 9 =>
                          out.folder[3] = <<"S", "e", "p", "t", "e", "m", "b", "e", "r">>
            /\ Cardinality(Range(MONTH_NAMES)) = 12
            /\ OutPath(out.folder, name) \notin DOMAIN callArgs.fs => out.name = name
            /\ out.name # name =>
                   \E k \in 1..(Cardinality(DOMAIN callArgs.fs) + 1) :
                       out.name = Stem(name) \o <<"_">> \o NatToDigits(k) \o Suffix(name)
            /\ \A d \in SourceDirs :
                   get_output_path(callArgs.fs, <<d, name>>, dt) = out

\* a file dated in September 2021 goes to Output/2021/September
C28_Witness ==
    /\ callPc = "returned"
    /\ callArgs.dt # None
    /\ callArgs.dt[1].month = 9
    /\ callArgs.fs = << >>
    /\ callResult.value =
           OutPath(<<OutputDir, <<"2", "0", "2", "1">>,
                     <<"S", "e", "p", "t", "e", "m", "b", "e", "r">> >>, callArgs.media[2])

\* a file without a date goes to Output/Unknown
C28_WitnessUnknown ==
    /\ callPc = "returned"
    /\ callArgs.dt = None
    /\ callArgs.fs = << >>
    /\ callResult.value = OutPath(<<OutputDir, UnknownDir>>, callArgs.media[2])

----------------------------------------------------------------------------
(* Reorganize mode: main.py reorganize_unknown and reorganize_single_file. *)
(* The state of the pass is held in callArgs: the path of the parent of    *)
(* the Unknown folder, the files in Unknown with what read_any_date finds  *)
(* for each, the files elsewhere under that parent (paths relative to it), *)
(* the results of the tasks and the three counters.                        *)

MaxReorgFaults == 1

ReorgNames == {NameA, NameB, CollisionName(NameA, 1)}

ReorgDates ==
    {None,
     Some(DatedBy(FromTimestamp(RefEpoch), "DateTimeOriginal")),
     Some(DatedBy(FromTimestamp(RefEpoch - 45 * SecondsPerDay), "file_mtime"))}

\* unknown_folder.parent, as path components
ReorgBases == {<< <<"r">>, OutputDir >>, << UnknownDir, <<"r">>, OutputDir >>}

ReorgResult(success, in_unknown) == [success |-> success, in_unknown |-> in_unknown]

\* the test of line 411 on the parts of new_output_path
StaysInUnknown(output_base, out) ==
    UnknownDir \in Range(output_base) \cup Range(out.folder) \cup {out.name}

\* output_base as it is handed to get_output_path (line 408): the paths the
\* model of get_output_path returns are relative to its first argument
ReorgInit ==
    /\ \E files \in (SUBSET ReorgNames) \ {{}}, output_base \in ReorgBases :
           \E found \in [files -> ReorgDates] :
               callArgs = [base |-> output_base, found |-> found, unknown |-> files,
                           fs |-> << >>, moved |-> << >>, results |-> << >>,
                           counted |-> {}, successful |-> 0, failed |-> 0,
                           still_unknown |-> 0, faults |-> 0]
    /\ callResult = Return(None)
    /\ callPc = "input"
    /\ DateIdle
    /\ MatchIdle
    /\ LedgerIdle
    /\ RunIdle
    /\ PoolIdle

\* reorganize_single_file (lines 391-439) for the file f of Unknown
ReorganizeSingleFile(f) ==
    /\ callPc = "input"
    /\ f \in DOMAIN callArgs.found
    /\ f \notin DOMAIN callArgs.results
    /\ LET date_result == callArgs.found[f] IN
       IF date_result = None
       THEN callArgs' = [callArgs EXCEPT
                             !.results = (f :> ReorgResult(TRUE, TRUE)) @@ @]
       ELSE LET new_output_path ==
                    get_output_path(callArgs.fs, <<UnknownDir, f>>, Some(date_result[1].date))
            IN  IF StaysInUnknown(callArgs.base, new_output_path)
                THEN callArgs' = [callArgs EXCEPT
                                      !.results = (f :> ReorgResult(TRUE, TRUE)) @@ @]
                ELSE \E outcome \in {"ok", "mkdir_fail", "move_fail"} :
                         /\ outcome # "ok" => callArgs.faults < MaxReorgFaults
                         /\ callArgs' =
                                IF outcome = "ok"
                                THEN [callArgs EXCEPT
                                          !.unknown = @ \ {f},
                                          !.fs = (new_output_path :> OutFile(None)) @@ @,
                                          !.moved = (f :> new_output_path) @@ @,
                                          !.results = (f :> ReorgResult(TRUE, FALSE)) @@ @]
                                ELSE [callArgs EXCEPT
                                          !.faults = @ + 1,
                                          !.results = (f :> ReorgResult(FALSE, FALSE)) @@ @]
    /\ UNCHANGED <<callResult, callPc>>
    /\ UNCHANGED <<dateVars, matchVars, ledgerVars, runVars, poolVars>>

\* one round of the as_completed loop (lines 456-472)
ReorgCollect(f) ==
    /\ callPc = "input"
    /\ f \in DOMAIN callArgs.results
    /\ f \notin callArgs.counted
    /\ LET r == callArgs.results[f] IN
       callArgs' = [callArgs EXCEPT
                        !.counted = @ \cup {f},
                        !.successful = IF r.success /\ ~r.in_unknown THEN @ + 1 ELSE @,
                        !.still_unknown = IF r.success /\ r.in_unknown THEN @ + 1 ELSE @,
                        !.failed = IF ~r.success THEN @ + 1 ELSE @]
    /\ UNCHANGED <<callResult, callPc>>
    /\ UNCHANGED <<dateVars, matchVars, ledgerVars, runVars, poolVars>>

\* the summary table (lines 474-495)
ReorgSummary ==
    /\ callPc = "input"
    /\ callArgs.counted = DOMAIN callArgs.found
    /\ callPc' = "returned"
    /\ callResult' = Return([total |-> Cardinality(DOMAIN callArgs.found),
                             successful |-> callArgs.successful,
                             still_unknown |-> callArgs.still_unknown,
                             failed |-> callArgs.failed])
    /\ UNCHANGED callArgs
    /\ UNCHANGED <<dateVars, matchVars, ledgerVars, runVars, poolVars>>

ReorgNext ==
    \/ \E f \in ReorgNames : ReorganizeSingleFile(f)
    \/ \E f \in ReorgNames : ReorgCollect(f)
    \/ ReorgSummary

SpecReorg == ReorgInit /\ [][ReorgNext]_vars

----------------------------------------------------------------------------
(* Claims about reorganize mode *)

\* files left in Unknown and the counters, as the claim states them
ReorgLeftAndCounted ==
    /\ \A f \in DOMAIN callArgs.found :
           (callArgs.found[f] = None /\ f \in DOMAIN callArgs.results) =>
               /\ f \in callArgs.unknown
               /\ callArgs.results[f] = ReorgResult(TRUE, TRUE)
    /\ callPc = "returned" =>
           /\ callResult.value.successful + callResult.value.still_unknown
                  + callResult.value.failed = callResult.value.total
           /\ callResult.value.still_unknown >=
                  Cardinality({f \in DOMAIN callArgs.found : callArgs.found[f] = None})

\* C29: a file of Unknown for which a date is resolved is moved to
\* <year>/<MonthName>/<filename> under the parent of the Unknown folder; a
\* file without a date stays in Unknown and is counted as still unknown;
\* successful + still unknown + failed is the number of files found.
C29_ReorganizePlacement ==
    /\ \A f \in DOMAIN callArgs.moved :
           LET dt == callArgs.found[f][1].date IN
           callArgs.moved[f].folder = <<NatToDigits(dt.year), MONTH_NAMES[dt.month]>>
    /\ ReorgLeftAndCounted

\* what holds instead: a moved file lies under Output/<year>/<MonthName> of
\* the parent of the Unknown folder, one Output too deep
C29_NestedOutput ==
    /\ \A f \in DOMAIN callArgs.moved :
           LET dt == callArgs.found[f][1].date IN
           callArgs.moved[f].folder =
               <<OutputDir, NatToDigits(dt.year), MONTH_NAMES[dt.month]>>
    /\ ReorgLeftAndCounted

====
